---- MODULE Spec2Model ----
(***************************************************************************)
(* A model of the Jina Reader sitemap crawler (src/crawler.py): the crawl  *)
(* orchestrator main(), the content fetcher fetch_with_jina(), the writer  *)
(* save_markdown(), the duplicate classifier analyze_duplicates() and the  *)
(* report generator generate_report().                                     *)
(*                                                                         *)
(* The program is sequential.  Its environment (the reader API answering   *)
(* each POST, the filesystem accepting or refusing a write, the random     *)
(* inter-request delay) is drawn with \E in the actions.  One action is    *)
(* one stretch of code between two interactions with the environment.      *)
(***************************************************************************)
EXTENDS Integers, Sequences, FiniteSets, TLC

(***************************************************************************)
(* Bounds of the model.                                                    *)
(***************************************************************************)
MaxRetry == 1
MaxUrls == 2

(***************************************************************************)
(* Sleep lengths written in the code, and the configured delay interval.   *)
(***************************************************************************)
BACKOFF_SLEEP == 2
CACHE_RETRY_SLEEP == 1
MIN_DELAY == 3
MAX_DELAY == 4

(* The deadlines the model configures: 0 (no limit) and one non-zero budget. *)
TIMEOUT_BUDGET == 5
TimeoutChoices == {0, TIMEOUT_BUDGET}
(* elapsed saturates one above the largest budget: only its comparison with  *)
(* CRAWLER_TIMEOUT is ever read.                                             *)
ElapsedCap == TIMEOUT_BUDGET + 1

Min(a, b) == IF a < b THEN a ELSE b

(***************************************************************************)
(* The URLs a run is given, and urlparse() on them.                        *)
(***************************************************************************)
URLS == {"https://www.a.com/x", "https://a.com/y"}

Netloc(u) ==
    CASE u = "https://www.a.com/x" -> "www.a.com"
      [] u = "https://a.com/y" -> "a.com"
      [] u = "" -> ""
      [] OTHER -> "a.com"

UrlPath(u) ==
    CASE u = "https://www.a.com/x" -> "/x"
      [] u = "https://a.com/y" -> "/y"
      [] u = "https://a.com/y/" -> "/y/"
      [] u = "https://a.com/" -> "/"
      [] u = "https://a.com/r" -> "/r"
      [] OTHER -> ""

(* netloc.replace('www.', '') *)
StripWww(n) == IF n = "www.a.com" THEN "a.com" ELSE n

(* a plausible slip: only the leading slash is stripped *)
PathPartLeadingSlashOnly(p) ==
    CASE p = "/x" -> "x"
      [] p = "/y" -> "y"
      [] p = "/y/" -> "y_"
      [] p = "/r" -> "r"
      [] OTHER -> "index"

(* path.strip('/').replace('/', '_') or 'index' *)
PathPart(p) ==
    CASE p = "/x" -> "x"
      [] p = "/y" -> "y"
      [] p = "/y/" -> "y"
      [] p = "/r" -> "r"
      [] OTHER -> "index"

(* save_markdown: filename = f"{domain}_{path}.md", as the pair (domain, path) *)
Filename(u) == <<StripWww(Netloc(u)), PathPart(UrlPath(u))>>

(***************************************************************************)
(* What the reader API can answer.                                         *)
(***************************************************************************)
ABSENT == "<absent>"

(* The 'data' object of a JSON body.  url = ABSENT: the key is missing.    *)
DataObjects ==
    { [title |-> "A", content |-> "a-body", url |-> ABSENT,
       description |-> "a-desc", lang |-> "en"],
      [title |-> "B", content |-> "b-body", url |-> "https://a.com/r",
       description |-> "b-desc", lang |-> "fr"] }

NoData == [title |-> "", content |-> "", url |-> ABSENT, description |-> "", lang |-> ""]

(* The 'warning' strings of a JSON body; "" when the key is missing.       *)
Warnings == {"", "This is a Cached Snapshot of the page", "Rate limit reached"}

(* warning.lower() *)
Lower(w) ==
    CASE w = "This is a Cached Snapshot of the page" -> "this is a cached snapshot of the page"
      [] w = "Rate limit reached" -> "rate limit reached"
      [] OTHER -> w

(* "cached snapshot" in s *)
ContainsCachedSnapshotCaseSensitive(s) ==
    s \in {"this is a cached snapshot of the page"}

(* a plausible slip: the test made without lower() *)
HasCachedSnapshotCaseSensitive(w) == ContainsCachedSnapshotCaseSensitive(w)

(* "cached snapshot" in warning.lower() *)
HasCachedSnapshot(w) == ContainsCachedSnapshotCaseSensitive(Lower(w))

(* Status codes: success and server error. *)
Statuses == {200, 503}

(* One answer to one POST: an exception raised by requests.post, or a      *)
(* response with a status and a body.  The body of a status >= 400 answer  *)
(* is never read, so it is fixed to non-JSON.                              *)
Raised(e) ==
    [exc |-> e, status |-> 0, json |-> FALSE, warning |-> "", data |-> NoData]

Exceptions == {"Timeout", "ConnectionError", "RequestException"}

Answers ==
    { Raised(e) : e \in Exceptions }
    \cup { [exc |-> "none", status |-> s, json |-> FALSE, warning |-> "", data |-> NoData] :
             s \in Statuses }
    \cup { [exc |-> "none", status |-> 200, json |-> TRUE, warning |-> w, data |-> d] :
             w \in Warnings, d \in DataObjects }

(***************************************************************************)
(* State.                                                                  *)
(*   configuration  : the module-level constants read from .env            *)
(*   main()         : pc, resolved, urls, total_urls, i, successful_urls,  *)
(*                    failed_urls, elapsed (time.time() - start_time),     *)
(*                    raised (the exception that left main, if any)        *)
(*   fetch_with_jina: attempt, data (the parsed body), content (the return *)
(*                    value), reason (the failure message printed), log    *)
(*                    (the POSTs sent and the sleeps taken by the current  *)
(*                    call, in order)                                      *)
(*   filesystem     : files (top-level record files), dupFiles (files in   *)
(*                    duplicates/<folder>/), failedFile (failed_urls.txt), *)
(*                    summary (crawl_summary.txt), duplicate_stats         *)
(*   invocation     : duplicates_only (--duplicates-only), SITEMAP_URL,    *)
(*                    sitemap_response (what the sitemap GET returned),    *)
(*                    get_count (the GETs get_urls_from_sitemap sent)      *)
(*   counters       : delay_count (inter-request delays slept),            *)
(*                    analyze_calls, report_calls (calls of                *)
(*                    analyze_duplicates and generate_report by main)      *)
(*   importer       : the state of src/dify.py: SKIP_EXISTING, documents   *)
(*                    (the dataset of the knowledge base, id -> name),     *)
(*                    existing_documents_cache, md_files and md_index (the *)
(*                    for loop of import_crawl_results),                   *)
(*                    successful_imports, failed_imports, requests (the    *)
(*                    list, delete and create requests sent), cache_loads  *)
(*                    (the runs of _load_existing_documents_cache past its *)
(*                    first line)                                          *)
(***************************************************************************)
VARIABLES RETRY_COUNT, NO_CACHE, EU_COMPLIANCE, CRAWLER_TIMEOUT, START_FROM_INDEX,
          pc, resolved, urls, total_urls, i, successful_urls, failed_urls,
          elapsed, raised,
          attempt, data, content, reason, log,
          files, dupFiles, failedFile, summary, duplicate_stats,
          duplicates_only, SITEMAP_URL, sitemap_response, get_count, runs, moves,
          forced_before,
          api_title, title_line, yaml_title, read_back,
          SKIP_EXISTING, documents, existing_documents_cache, md_files, md_index,
          successful_imports, failed_imports, requests, cache_loads,
          delay_count, analyze_calls, report_calls

config == <<RETRY_COUNT, NO_CACHE, EU_COMPLIANCE, CRAWLER_TIMEOUT, START_FROM_INDEX>>
lists == <<successful_urls, failed_urls>>
fetchVars == <<attempt, data, content, reason, log>>
fsVars == <<files, dupFiles, failedFile, summary, duplicate_stats>>
invocation == <<duplicates_only, SITEMAP_URL, sitemap_response, get_count, runs, moves>>
counters == <<delay_count, analyze_calls, report_calls>>
history == <<forced_before>>
pipeline == <<api_title, title_line, yaml_title, read_back>>
importer == <<SKIP_EXISTING, documents, existing_documents_cache, md_files, md_index,
              successful_imports, failed_imports, requests, cache_loads>>
vars == <<config, pc, resolved, urls, total_urls, i, lists, elapsed, raised,
          fetchVars, fsVars, invocation, counters, history, pipeline, importer>>

(* Every sequence over S of length 0..n. *)
SeqsUpTo(S, n) == UNION { [1..k -> S] : k \in 0..n }

(* Python's None for the return value of fetch_with_jina. *)
None ==
    [isNone |-> TRUE, title |-> "", url_source |-> "", description |-> "",
     lang |-> "", content |-> ""]

NoSummary ==
    [kind |-> "absent", total |-> 0, processed |-> 0, successful |-> 0, failed |-> 0,
     unique |-> 0, duplicates |-> 0]

EmptyFn == [x \in {} |-> x]

(* the sitemap target of the model, and what a GET of it can return: an    *)
(* error (no successful status), a body that is not well-formed XML, or a  *)
(* sitemap document given by the text of the loc of each url entry         *)
SITEMAP == "https://a.com/sitemap.xml"

SitemapDoc(locs) == [kind |-> "ok", locs |-> locs]
NoSitemapResponse == [kind |-> "none", locs |-> <<>>]

(* lines 282-288: the files the last classifier run relocated, and those   *)
(* whose shutil.move raised                                                *)
NoMoves == [relocated |-> {}, failed |-> {}]

(* extract_frontmatter's answer for a file not read yet *)
NotRead == [ok |-> FALSE, title |-> <<>>]

(* dify.py line 55: self.existing_documents_cache = None *)
NoCache == [loaded |-> FALSE, byName |-> EmptyFn]

(* dify.py has not been started *)
ImporterIdle ==
    /\ SKIP_EXISTING = FALSE
    /\ documents = EmptyFn
    /\ existing_documents_cache = NoCache
    /\ md_files = <<>>
    /\ md_index = 0
    /\ successful_imports = <<>>
    /\ failed_imports = <<>>
    /\ requests = <<>>
    /\ cache_loads = 0

(* A crawl, from the point where get_urls_from_sitemap has returned the    *)
(* page URLs of a sitemap.                                                 *)
Init ==
    /\ RETRY_COUNT \in 0..MaxRetry
    /\ NO_CACHE \in BOOLEAN
    /\ EU_COMPLIANCE \in BOOLEAN
    /\ CRAWLER_TIMEOUT \in TimeoutChoices
    /\ START_FROM_INDEX \in 0..(MaxUrls + 1)
    /\ resolved \in SeqsUpTo(URLS, MaxUrls)
    /\ pc = "main"
    /\ urls = <<>>
    /\ total_urls = 0
    /\ i = 0
    /\ successful_urls = <<>>
    /\ failed_urls = <<>>
    /\ elapsed = 0
    /\ raised = "none"
    /\ attempt = 0
    /\ data = NoData
    /\ content = None
    /\ reason = "none"
    /\ log = <<>>
    /\ files = EmptyFn
    /\ dupFiles = EmptyFn
    /\ failedFile = <<>>
    /\ summary = NoSummary
    /\ duplicate_stats = EmptyFn
    /\ duplicates_only = FALSE
    /\ SITEMAP_URL = SITEMAP
    /\ sitemap_response = SitemapDoc(resolved)
    /\ get_count = 1
    /\ runs = 1
    /\ moves = NoMoves
    /\ forced_before = FALSE
    /\ api_title = <<>>
    /\ title_line = <<>>
    /\ yaml_title = <<>>
    /\ read_back = NotRead
    /\ ImporterIdle
    /\ delay_count = 0
    /\ analyze_calls = 0
    /\ report_calls = 0

(* time.sleep(secs), as seen by time.time() - start_time, which main() reads *)
(* only when CRAWLER_TIMEOUT > 0 (lines 560-561)                             *)
Slept(secs) == IF CRAWLER_TIMEOUT > 0 THEN Min(elapsed + secs, ElapsedCap) ELSE elapsed

(***************************************************************************)
(* main(), lines 484-555: resolve the list, validate START_FROM_INDEX,     *)
(* slice, initialise the lists and the live summary.                       *)
(***************************************************************************)
StartIndexInRange(n) == ~(START_FROM_INDEX < 1) /\ ~(START_FROM_INDEX > n)

InitialSummary(n) ==
    [kind |-> "live", total |-> n, processed |-> 0, successful |-> 0, failed |-> 0,
     unique |-> 0, duplicates |-> 0]

(* a plausible slip: the prefix cut one too long *)
SkipPrefixOffByOne(list) == SubSeq(list, START_FROM_INDEX + 1, Len(list))

(* lines 525-527: urls = urls[START_FROM_INDEX - 1:] *)
SkipPrefix(list) == SubSeq(list, START_FROM_INDEX, Len(list))

MainExit ==
    /\ pc = "main"
    /\ resolved = <<>> \/ ~StartIndexInRange(Len(resolved))
    /\ pc' = "exit"
    /\ UNCHANGED <<importer, pipeline, history, config, invocation, counters, resolved, urls, total_urls, i, lists, elapsed, raised,
                   fetchVars, fsVars>>

(* a plausible slip: the loop is skipped *)
MainStartSkipsLoop ==
    /\ pc = "main"
    /\ resolved # <<>>
    /\ StartIndexInRange(Len(resolved))
    /\ total_urls' = Len(resolved)
    /\ urls' = SkipPrefix(resolved)
    /\ successful_urls' = <<>>
    /\ failed_urls' = <<>>
    /\ elapsed' = 0
    /\ summary' = InitialSummary(Len(urls'))
    /\ i' = 1
    /\ pc' = "analyze"
    /\ UNCHANGED <<importer, pipeline, history, config, invocation, counters, resolved, raised, fetchVars, files, dupFiles, failedFile,
                   duplicate_stats>>

MainStart ==
    /\ pc = "main"
    /\ resolved # <<>>
    /\ StartIndexInRange(Len(resolved))
    /\ total_urls' = Len(resolved)
    /\ urls' = SkipPrefix(resolved)
    /\ successful_urls' = <<>>
    /\ failed_urls' = <<>>
    /\ elapsed' = 0
    /\ summary' = InitialSummary(Len(urls'))
    /\ i' = 1
    /\ pc' = "loop"
    /\ UNCHANGED <<importer, pipeline, history, config, invocation, counters, resolved, raised, fetchVars, files, dupFiles, failedFile,
                   duplicate_stats>>

(* a plausible slip: the budget compared with >= *)
DeadlinePassedInclusive == CRAWLER_TIMEOUT > 0 /\ elapsed >= CRAWLER_TIMEOUT

(***************************************************************************)
(* main(), lines 558-573: the head of one loop iteration: the end of the   *)
(* list, the deadline check, and the call of fetch_with_jina(url), whose   *)
(* lines 78-111 only build the headers and the payload.                    *)
(***************************************************************************)
(* lines 560-562 *)
DeadlinePassed == CRAWLER_TIMEOUT > 0 /\ elapsed > CRAWLER_TIMEOUT

(* a plausible slip: the loop exit goes straight to the report *)
LoopEndSkipsClassifier ==
    /\ pc = "loop"
    /\ i > Len(urls) \/ DeadlinePassed
    /\ pc' = "report"
    /\ UNCHANGED <<importer, pipeline, history, config, invocation, counters, resolved, urls, total_urls, i, lists, elapsed,
                   raised, fetchVars, fsVars>>

LoopEnd ==
    /\ pc = "loop"
    /\ i > Len(urls) \/ DeadlinePassed
    /\ pc' = "analyze"
    /\ UNCHANGED <<importer, pipeline, history, config, invocation, counters, resolved, urls, total_urls, i, lists, elapsed, raised,
                   fetchVars, fsVars>>

LoopFetch ==
    /\ pc = "loop"
    /\ i <= Len(urls)
    /\ ~DeadlinePassed
    /\ attempt' = 0
    /\ data' = NoData
    /\ content' = None
    /\ reason' = "none"
    /\ log' = <<>>
    /\ pc' = "post"
    /\ UNCHANGED <<importer, pipeline, history, config, invocation, counters, resolved, urls, total_urls, i, lists, elapsed, raised, fsVars>>

(***************************************************************************)
(* fetch_with_jina(url), lines 114-201.                                    *)
(*                                                                         *)
(* log records what the current call did, in order: each POST with the     *)
(* X-No-Cache header it carried and the raw answer it got, and each sleep. *)
(***************************************************************************)
url == urls[i]

PostEntry(forced, nocache, ans) ==
    [ev |-> "post", forced |-> forced, nocache |-> nocache, secs |-> 0,
     exc |-> ans.exc, status |-> ans.status, json |-> ans.json, warning |-> ans.warning,
     data |-> ans.data]

SleepEntry(secs) ==
    [ev |-> "sleep", forced |-> FALSE, nocache |-> FALSE, secs |-> secs,
     exc |-> "none", status |-> 0, json |-> FALSE, warning |-> "", data |-> NoData]

(* a plausible slip: the header set for a cache retry stays set *)
HeaderNoCacheSticky == NO_CACHE \/ forced_before

(* lines 83, 100-102: headers = {} in each call, and                     *)
(* headers['X-No-Cache'] = 'true' only if NO_CACHE                       *)
HeaderNoCache == NO_CACHE

(* lines 140-141: retry_headers = headers.copy(); retry_headers['X-No-Cache'] = 'true' *)
RetryHeaderNoCache == TRUE

(* lines 120, 182, 190: if attempt < RETRY_COUNT *)
AttemptsRemainOffByOne == attempt <= RETRY_COUNT

AttemptsRemain == attempt < RETRY_COUNT

(* line 119: if response.status_code >= 400 *)
IsErrorStatus(s) == s >= 400

(* line 146: response.raise_for_status() raises HTTPError for 400 <= status < 600 *)
RaiseForStatus(s) == 400 <= s /\ s < 600

(* lines 163-177: the formatted content built from the parsed body *)
(* a plausible slip: the language is taken whatever the endpoint *)
FormattedContentLangAlways(u, d) ==
    [isNone |-> FALSE,
     title |-> d.title,
     url_source |-> IF d.url = ABSENT THEN u ELSE d.url,
     description |-> d.description,
     lang |-> d.lang,
     content |-> d.content]

FormattedContent(u, d) ==
    [isNone |-> FALSE,
     title |-> d.title,
     url_source |-> IF d.url = ABSENT THEN u ELSE d.url,
     description |-> d.description,
     lang |-> IF ~EU_COMPLIANCE THEN d.lang ELSE "",
     content |-> d.content]

(* return None, after the POST recorded by entry *)
ReturnNone(entry, why) ==
    /\ log' = Append(log, entry)
    /\ content' = None
    /\ reason' = why
    /\ pc' = "save"
    /\ UNCHANGED <<attempt, elapsed, raised>>

(* time.sleep(2); continue -- and line 201 when the for loop is exhausted *)
SleepAndContinue(entry) ==
    /\ log' = log \o <<entry, SleepEntry(BACKOFF_SLEEP)>>
    /\ elapsed' = Slept(BACKOFF_SLEEP)
    /\ attempt' = attempt + 1
    /\ content' = None
    /\ IF attempt + 1 < RETRY_COUNT + 1
         THEN pc' = "post" /\ reason' = "none"
         ELSE pc' = "save" /\ reason' = "all retries failed"
    /\ UNCHANGED raised

(* a plausible slip: the failure returned without looking at the budget *)
GiveUpAtOnce(entry, why) == ReturnNone(entry, why)

(* the shared shape of lines 120-126, 182-188, 190-196 *)
RetryOrGiveUp(entry, why) ==
    IF AttemptsRemain THEN SleepAndContinue(entry) ELSE ReturnNone(entry, why)

(* lines 116, 181-196: requests.post raises Timeout or ConnectionError *)
PostTransportFailure(ans) ==
    /\ pc = "post"
    /\ ans.exc \in {"Timeout", "ConnectionError"}
    /\ RetryOrGiveUp(PostEntry(FALSE, HeaderNoCache, ans), ans.exc)
    /\ UNCHANGED data
    /\ UNCHANGED <<importer, pipeline, history, config, invocation, counters, resolved, urls, total_urls, i, lists, fsVars>>

(* line 116: requests.post raises a RequestException that is neither a      *)
(* Timeout nor a ConnectionError: no except clause of lines 181-196 takes   *)
(* it, and main() has no try around the call (line 573).                    *)
PostOtherException(ans) ==
    /\ pc = "post"
    /\ ans.exc = "RequestException"
    /\ log' = Append(log, PostEntry(FALSE, HeaderNoCache, ans))
    /\ raised' = "RequestException"
    /\ pc' = "crashed"
    /\ UNCHANGED <<attempt, data, content, reason, elapsed>>
    /\ UNCHANGED <<importer, pipeline, history, config, invocation, counters, resolved, urls, total_urls, i, lists, fsVars>>

(* lines 119-126 *)
PostHTTPError(ans) ==
    /\ pc = "post"
    /\ ans.exc = "none"
    /\ IsErrorStatus(ans.status)
    /\ RetryOrGiveUp(PostEntry(FALSE, HeaderNoCache, ans), "HTTP error")
    /\ UNCHANGED data
    /\ UNCHANGED <<importer, pipeline, history, config, invocation, counters, resolved, urls, total_urls, i, lists, fsVars>>

(* a plausible slip: an unparseable body treated like a retryable failure *)
PostInvalidJSONRetried(ans) ==
    /\ pc = "post"
    /\ ans.exc = "none"
    /\ ~IsErrorStatus(ans.status)
    /\ ~ans.json
    /\ RetryOrGiveUp(PostEntry(FALSE, HeaderNoCache, ans), "Invalid JSON")
    /\ UNCHANGED data
    /\ UNCHANGED <<importer, pipeline, history, config, invocation, counters, resolved, urls, total_urls, i, lists, fsVars>>

(* lines 129-133 *)
PostInvalidJSON(ans) ==
    /\ pc = "post"
    /\ ans.exc = "none"
    /\ ~IsErrorStatus(ans.status)
    /\ ~ans.json
    /\ ReturnNone(PostEntry(FALSE, HeaderNoCache, ans), "Invalid JSON")
    /\ UNCHANGED data
    /\ UNCHANGED <<importer, pipeline, history, config, invocation, counters, resolved, urls, total_urls, i, lists, fsVars>>

(* line 137: if "cached snapshot" in warning.lower() and not NO_CACHE *)
NeedsCacheRetry(w) == HasCachedSnapshot(w) /\ ~NO_CACHE

(* lines 136-144: the cached-snapshot warning is seen; sleep 1 before the   *)
(* forced request                                                           *)
PostCached(ans) ==
    /\ pc = "post"
    /\ ans.exc = "none"
    /\ ~IsErrorStatus(ans.status)
    /\ ans.json
    /\ NeedsCacheRetry(ans.warning)
    /\ data' = ans.data
    /\ log' = log \o <<PostEntry(FALSE, HeaderNoCache, ans), SleepEntry(CACHE_RETRY_SLEEP)>>
    /\ elapsed' = Slept(CACHE_RETRY_SLEEP)
    /\ forced_before' = TRUE
    /\ pc' = "cache_retry"
    /\ UNCHANGED <<attempt, content, reason, raised>>
    /\ UNCHANGED <<importer, pipeline, config, invocation, counters, resolved, urls, total_urls, i, lists, fsVars>>

(* lines 130-137, 162-179: a parsed body that needs no cache retry *)
PostSuccess(ans) ==
    /\ pc = "post"
    /\ ans.exc = "none"
    /\ ~IsErrorStatus(ans.status)
    /\ ans.json
    /\ ~NeedsCacheRetry(ans.warning)
    /\ data' = ans.data
    /\ log' = Append(log, PostEntry(FALSE, HeaderNoCache, ans))
    /\ content' = FormattedContent(url, data')
    /\ reason' = "none"
    /\ pc' = "save"
    /\ UNCHANGED <<attempt, elapsed, raised>>
    /\ UNCHANGED <<importer, pipeline, history, config, invocation, counters, resolved, urls, total_urls, i, lists, fsVars>>

(* a plausible slip: a failed forced request falls back on the retry loop *)
CacheRetryFailsRetried(ans) ==
    /\ pc = "cache_retry"
    /\ \/ ans.exc # "none"
       \/ ans.exc = "none" /\ RaiseForStatus(ans.status)
    /\ RetryOrGiveUp(PostEntry(TRUE, RetryHeaderNoCache, ans), "Error on cache retry")
    /\ UNCHANGED data
    /\ UNCHANGED <<importer, pipeline, history, config, invocation, counters, resolved, urls, total_urls, i, lists, fsVars>>

(* lines 145-146, 158-160: the forced request raises (any RequestException, *)
(* the HTTPError of raise_for_status included)                              *)
CacheRetryFails(ans) ==
    /\ pc = "cache_retry"
    /\ \/ ans.exc # "none"
       \/ ans.exc = "none" /\ RaiseForStatus(ans.status)
    /\ ReturnNone(PostEntry(TRUE, RetryHeaderNoCache, ans), "Error on cache retry")
    /\ UNCHANGED data
    /\ UNCHANGED <<importer, pipeline, history, config, invocation, counters, resolved, urls, total_urls, i, lists, fsVars>>

(* lines 148-149, 155-157 *)
CacheRetryInvalidJSON(ans) ==
    /\ pc = "cache_retry"
    /\ ans.exc = "none"
    /\ ~RaiseForStatus(ans.status)
    /\ ~ans.json
    /\ ReturnNone(PostEntry(TRUE, RetryHeaderNoCache, ans), "Invalid JSON on retry")
    /\ UNCHANGED data
    /\ UNCHANGED <<importer, pipeline, history, config, invocation, counters, resolved, urls, total_urls, i, lists, fsVars>>

(* a plausible slip: the retry's body is parsed but the old data is kept *)
RetryDataKeepsOriginal(old, ans) == old

(* line 149: data = response.json() *)
RetryData(old, ans) == ans.data

(* lines 149-154: the forced answer still carries the warning *)
CacheRetryStillCached(ans) ==
    /\ pc = "cache_retry"
    /\ ans.exc = "none"
    /\ ~RaiseForStatus(ans.status)
    /\ ans.json
    /\ HasCachedSnapshot(ans.warning)
    /\ data' = RetryData(data, ans)
    /\ ReturnNone(PostEntry(TRUE, RetryHeaderNoCache, ans), "Still cached")
    /\ UNCHANGED <<importer, pipeline, history, config, invocation, counters, resolved, urls, total_urls, i, lists, fsVars>>

(* lines 149-152, 162-179: the forced answer is clean *)
CacheRetrySuccess(ans) ==
    /\ pc = "cache_retry"
    /\ ans.exc = "none"
    /\ ~RaiseForStatus(ans.status)
    /\ ans.json
    /\ ~HasCachedSnapshot(ans.warning)
    /\ data' = RetryData(data, ans)
    /\ log' = Append(log, PostEntry(TRUE, RetryHeaderNoCache, ans))
    /\ content' = FormattedContent(url, data')
    /\ reason' = "none"
    /\ pc' = "save"
    /\ UNCHANGED <<attempt, elapsed, raised>>
    /\ UNCHANGED <<importer, pipeline, history, config, invocation, counters, resolved, urls, total_urls, i, lists, fsVars>>

(***************************************************************************)
(* save_markdown(url, content, output_dir), lines 299-383: the record file *)
(* written for one URL.  The file name comes from the url argument, the    *)
(* header fields from the lines of content.                                *)
(***************************************************************************)
RecordFile(u, c) ==
    [title |-> c.title,
     source_url |-> c.url_source,
     domain |-> StripWww(Netloc(u)),
     description |-> c.description,
     language |-> IF ~EU_COMPLIANCE /\ c.lang # "" THEN c.lang ELSE ABSENT,
     body |-> c.content]

(* files with the file named n (over)written as f *)
WriteFile(fs, n, f) == [x \in (DOMAIN fs) \cup {n} |-> IF x = n THEN f ELSE fs[x]]

(* lines 586-597: the live summary rewritten after each URL *)
(* a plausible slip: only the successes are counted as processed *)
LiveSummaryCountsSuccesses(succ, fail) ==
    [kind |-> "live", total |-> Len(urls), processed |-> Len(succ),
     successful |-> Len(succ), failed |-> Len(fail), unique |-> 0, duplicates |-> 0]

LiveSummary(succ, fail) ==
    [kind |-> "live", total |-> Len(urls), processed |-> Len(succ) + Len(fail),
     successful |-> Len(succ), failed |-> Len(fail), unique |-> 0, duplicates |-> 0]

(* lines 600-603: random.uniform(MIN_DELAY, MAX_DELAY), unless this was the last URL *)
DelayChoices == IF i < Len(urls) THEN MIN_DELAY..MAX_DELAY ELSE {0}

(* lines 600-603: one time.sleep(delay) is made if i < len(urls) *)
DelaysSlept == IF i < Len(urls) THEN 1 ELSE 0

(***************************************************************************)
(* main(), lines 575-603: the rest of one loop iteration.                  *)
(***************************************************************************)
(* the locals of the finished fetch_with_jina call are gone; content stays *)
FetchReturned ==
    /\ attempt' = 0
    /\ data' = NoData
    /\ log' = <<>>

(* lines 576-578, 586-603: content is truthy and the file is written *)
RecordSuccess(delay) ==
    /\ pc = "save"
    /\ ~content.isNone
    /\ files' = WriteFile(files, Filename(url), RecordFile(url, content))
    /\ successful_urls' = Append(successful_urls, url)
    /\ summary' = LiveSummary(successful_urls', failed_urls)
    /\ elapsed' = Slept(delay)
    /\ delay_count' = delay_count + DelaysSlept
    /\ i' = i + 1
    /\ pc' = "loop"
    /\ FetchReturned
    /\ UNCHANGED <<importer, pipeline, history, config, invocation, analyze_calls, report_calls, resolved, urls, total_urls, failed_urls, raised, content, reason,
                   dupFiles, failedFile, duplicate_stats>>

(* lines 312, 380-381: mkdir or open/write raises OSError; neither          *)
(* save_markdown nor main() (line 577) catches it                           *)
SaveRaises ==
    /\ pc = "save"
    /\ ~content.isNone
    /\ raised' = "OSError"
    /\ pc' = "crashed"
    /\ UNCHANGED <<importer, pipeline, history, config, invocation, counters, resolved, urls, total_urls, i, lists, elapsed, fetchVars, fsVars>>

(* a plausible slip: the first failure ends the loop *)
RecordFailureStops(delay) ==
    /\ pc = "save"
    /\ content.isNone
    /\ failed_urls' = Append(failed_urls, url)
    /\ failedFile' = Append(failedFile, url)
    /\ summary' = LiveSummary(successful_urls, failed_urls')
    /\ elapsed' = Slept(delay)
    /\ delay_count' = delay_count + DelaysSlept
    /\ i' = i + 1
    /\ pc' = "analyze"
    /\ FetchReturned
    /\ UNCHANGED <<importer, pipeline, history, config, invocation, analyze_calls, report_calls, resolved, urls, total_urls, successful_urls, raised, content, reason,
                   files, dupFiles, duplicate_stats>>

(* a plausible slip: the failed URL is put at the head of the list *)
RecordFailurePrepends(delay) ==
    /\ pc = "save"
    /\ content.isNone
    /\ failed_urls' = <<url>> \o failed_urls
    /\ failedFile' = Append(failedFile, url)
    /\ summary' = LiveSummary(successful_urls, failed_urls')
    /\ elapsed' = Slept(delay)
    /\ delay_count' = delay_count + DelaysSlept
    /\ i' = i + 1
    /\ pc' = "loop"
    /\ FetchReturned
    /\ UNCHANGED <<importer, pipeline, history, config, invocation, analyze_calls, report_calls, resolved, urls, total_urls,
                   successful_urls, raised, content, reason, files, dupFiles, duplicate_stats>>

(* lines 579-583, 586-603: content is None *)
RecordFailure(delay) ==
    /\ pc = "save"
    /\ content.isNone
    /\ failed_urls' = Append(failed_urls, url)
    /\ failedFile' = Append(failedFile, url)
    /\ summary' = LiveSummary(successful_urls, failed_urls')
    /\ elapsed' = Slept(delay)
    /\ delay_count' = delay_count + DelaysSlept
    /\ i' = i + 1
    /\ pc' = "loop"
    /\ FetchReturned
    /\ UNCHANGED <<importer, pipeline, history, config, invocation, analyze_calls, report_calls, resolved, urls, total_urls, successful_urls, raised, content, reason,
                   files, dupFiles, duplicate_stats>>

(***************************************************************************)
(* analyze_duplicates(output_dir), lines 226-296.                          *)
(***************************************************************************)
(* line 247: metadata.get('title', md_file.stem) of a file the writer wrote *)
TitleOf(fs, n) == fs[n].title

(* lines 237-251: the titles carried by more than one top-level file *)
FilesTitled(fs, t) == { n \in DOMAIN fs : TitleOf(fs, n) = t }

DuplicateTitles(fs) ==
    { t \in { TitleOf(fs, n) : n \in DOMAIN fs } : Cardinality(FilesTitled(fs, t)) > 1 }

(* two titles of more than 150 characters that share their first 147 *)
LONG1 == "L...147...L-one"
LONG2 == "L...147...L-two"

(* lines 269-274: the folder name made from a title, cut to 50 characters *)
SafeTitle(t) ==
    CASE t = "A" -> "a"
      [] t = "B" -> "b"
      [] t \in {LONG1, LONG2} -> "l50l"
      [] OTHER -> "untitled"

(* a plausible slip: the first file of each group is kept in place *)
MovedNamesKeepFirst(fs) ==
    { n \in DOMAIN fs : TitleOf(fs, n) \in DuplicateTitles(fs)
                        /\ n # (CHOOSE m \in FilesTitled(fs, TitleOf(fs, n)) : TRUE) }

(* line 280: files_to_move = files, for every duplicated title *)
MovedNames(fs) == { n \in DOMAIN fs : TitleOf(fs, n) \in DuplicateTitles(fs) }

(* a plausible slip: the files are copied, the originals stay *)
TopLevelAfterCopy(fs, gone) == fs

(* the top level after shutil.move took the files gone *)
TopLevelAfter(fs, gone) == [n \in (DOMAIN fs) \ gone |-> fs[n]]

(* lines 226-296.  shutil.move (line 285) may raise for any file; the      *)
(* exception is printed and the file stays where it is (lines 287-288).    *)
AnalyzeDuplicates ==
    /\ pc = "analyze"
    /\ \E failed \in SUBSET MovedNames(files) :
          LET moved == MovedNames(files) \ failed
              dest == { <<SafeTitle(TitleOf(files, n)), n>> : n \in moved }
          IN /\ files' = TopLevelAfter(files, moved)
             /\ dupFiles' = [d \in (DOMAIN dupFiles) \cup dest |->
                               IF d \in dest THEN files[d[2]] ELSE dupFiles[d]]
             /\ moves' = [relocated |-> moved, failed |-> failed]
    /\ duplicate_stats' =
          [t \in DuplicateTitles(files) |->
              [total_files |-> Cardinality(FilesTitled(files, t)),
               moved_files |-> Cardinality(FilesTitled(files, t)),
               folder |-> SafeTitle(t)]]
    /\ analyze_calls' = analyze_calls + 1
    /\ pc' = "report"
    /\ UNCHANGED <<importer, pipeline, history, config, duplicates_only, SITEMAP_URL, sitemap_response, get_count, runs,
                   delay_count, report_calls, resolved, urls, total_urls, i, lists, elapsed,
                   raised, fetchVars, failedFile, summary>>

(***************************************************************************)
(* generate_report(...), lines 385-439.                                    *)
(***************************************************************************)
RECURSIVE SumMoved(_, _)
SumMoved(stats, ts) ==
    IF ts = {} THEN 0
    ELSE LET t == CHOOSE x \in ts : TRUE
         IN stats[t].moved_files + SumMoved(stats, ts \ {t})

(* line 424 *)
TotalDuplicates(stats) == SumMoved(stats, DOMAIN stats)

FinalSummary(succ, fail, stats) ==
    [kind |-> "final", total |-> Len(succ) + Len(fail), processed |-> Len(succ) + Len(fail),
     successful |-> Len(succ), failed |-> Len(fail),
     unique |-> IF DOMAIN stats # {} THEN Len(succ) - TotalDuplicates(stats) ELSE 0,
     duplicates |-> IF DOMAIN stats # {} THEN TotalDuplicates(stats) ELSE 0]

GenerateReport ==
    /\ pc = "report"
    /\ failedFile' = IF failed_urls # <<>> THEN failed_urls ELSE failedFile
    /\ summary' = FinalSummary(successful_urls, failed_urls, duplicate_stats)
    /\ report_calls' = report_calls + 1
    /\ pc' = "done"
    /\ UNCHANGED <<importer, pipeline, history, config, invocation, delay_count, analyze_calls, resolved, urls, total_urls, i, lists, elapsed, raised, fetchVars,
                   files, dupFiles, duplicate_stats>>

(***************************************************************************)
(* The program.                                                            *)
(***************************************************************************)
Post ==
    \E ans \in Answers :
        \/ PostTransportFailure(ans)
        \/ PostOtherException(ans)
        \/ PostHTTPError(ans)
        \/ PostInvalidJSON(ans)
        \/ PostCached(ans)
        \/ PostSuccess(ans)

CacheRetry ==
    \E ans \in Answers :
        \/ CacheRetryFails(ans)
        \/ CacheRetryInvalidJSON(ans)
        \/ CacheRetryStillCached(ans)
        \/ CacheRetrySuccess(ans)

Record ==
    \/ \E delay \in DelayChoices : RecordSuccess(delay)
    \/ SaveRaises
    \/ \E delay \in DelayChoices : RecordFailure(delay)

Next ==
    \/ MainExit
    \/ MainStart
    \/ LoopEnd
    \/ LoopFetch
    \/ Post
    \/ CacheRetry
    \/ Record
    \/ AnalyzeDuplicates
    \/ GenerateReport

Spec == Init /\ [][Next]_vars

(***************************************************************************)
(* get_urls_from_sitemap(), lines 44-71, and the head of main(), lines     *)
(* 484-510, that calls it.  A sitemap document is the sequence of the loc  *)
(* texts of its url elements: LOC_MISSING for a url element without a loc  *)
(* child, "" for an empty loc element (ElementTree gives text None), the   *)
(* text itself otherwise.                                                  *)
(***************************************************************************)
LOC_MISSING == "<no loc>"
LOC_BLANK == "  "
LOC_PADDED == " https://a.com/y "
LocTexts == {LOC_MISSING, "", LOC_BLANK, LOC_PADDED, "https://www.a.com/x"}

(* str.strip() on the texts above *)
Strip(t) ==
    CASE t = LOC_BLANK -> ""
      [] t = LOC_PADDED -> "https://a.com/y"
      [] OTHER -> t

(* line 64: loc is not None and loc.text *)
LocKept(t) == t # LOC_MISSING /\ t # ""

(* lines 60-65 *)
ExtractLocs(locs) ==
    LET kept == SelectSeq(locs, LocKept)
    IN [k \in 1..Len(kept) |-> Strip(kept[k])]

SitemapResponses ==
    {[kind |-> "error", locs |-> <<>>], [kind |-> "malformed", locs |-> <<>>]}
        \cup { SitemapDoc(l) : l \in SeqsUpTo(LocTexts, MaxUrls) }

(* lines 53-71: every exception of the GET, of raise_for_status and of the *)
(* parser is caught and answered with [] *)
GetUrlsFromSitemap(resp) == IF resp.kind = "ok" THEN ExtractLocs(resp.locs) ELSE <<>>

Targets == {"", "https://a.com/y", SITEMAP}

(* str.endswith('.xml') on the targets above *)
EndsWithXml(t) == t = SITEMAP

InitSitemap ==
    /\ RETRY_COUNT = 0
    /\ NO_CACHE = FALSE
    /\ EU_COMPLIANCE = FALSE
    /\ CRAWLER_TIMEOUT = 0
    /\ START_FROM_INDEX = 1
    /\ duplicates_only = FALSE
    /\ SITEMAP_URL \in Targets
    /\ sitemap_response = NoSitemapResponse
    /\ get_count = 0
    /\ runs = 1
    /\ moves = NoMoves
    /\ resolved = <<>>
    /\ pc = "start"
    /\ urls = <<>>
    /\ total_urls = 0
    /\ i = 0
    /\ successful_urls = <<>>
    /\ failed_urls = <<>>
    /\ elapsed = 0
    /\ raised = "none"
    /\ attempt = 0
    /\ data = NoData
    /\ content = None
    /\ reason = "none"
    /\ log = <<>>
    /\ files = EmptyFn
    /\ dupFiles = EmptyFn
    /\ failedFile = <<>>
    /\ summary = NoSummary
    /\ duplicate_stats = EmptyFn
    /\ forced_before = FALSE
    /\ api_title = <<>>
    /\ title_line = <<>>
    /\ yaml_title = <<>>
    /\ read_back = NotRead
    /\ ImporterIdle
    /\ delay_count = 0
    /\ analyze_calls = 0
    /\ report_calls = 0

(* lines 485-487 *)
MainNoTarget ==
    /\ pc = "start"
    /\ ~duplicates_only
    /\ SITEMAP_URL = ""
    /\ pc' = "exit"
    /\ UNCHANGED <<importer, pipeline, history, config, invocation, counters, resolved, urls, total_urls, i, lists, elapsed, raised,
                   fetchVars, fsVars>>

(* lines 49-51 *)
ResolveSingleUrl ==
    /\ pc = "start"
    /\ ~duplicates_only
    /\ SITEMAP_URL # ""
    /\ ~EndsWithXml(SITEMAP_URL)
    /\ resolved' = <<SITEMAP_URL>>
    /\ pc' = "main"
    /\ UNCHANGED <<importer, pipeline, history, config, invocation, counters, urls, total_urls, i, lists, elapsed, raised,
                   fetchVars, fsVars>>

(* lines 53-71 *)
ResolveSitemap ==
    /\ pc = "start"
    /\ ~duplicates_only
    /\ EndsWithXml(SITEMAP_URL)
    /\ \E resp \in SitemapResponses :
          /\ sitemap_response' = resp
          /\ resolved' = GetUrlsFromSitemap(resp)
    /\ get_count' = get_count + 1
    /\ pc' = "main"
    /\ UNCHANGED <<importer, pipeline, history, config, duplicates_only, SITEMAP_URL, runs, moves, counters, urls, total_urls, i, lists, elapsed,
                   raised, fetchVars, fsVars>>

NextSitemap ==
    \/ MainNoTarget
    \/ ResolveSingleUrl
    \/ ResolveSitemap
    \/ Next

SpecSitemap == InitSitemap /\ [][NextSitemap]_vars

(***************************************************************************)
(* main(), lines 450-482: the --duplicates-only invocation over an output  *)
(* directory left by earlier runs, and the same invocation made again.     *)
(***************************************************************************)
MaxRuns == 2

DirNames == {Filename("https://www.a.com/x"), Filename("https://a.com/y"), <<"a.com", "index">>}

(* a record file as save_markdown wrote it, with title t *)
StoredFile(t) ==
    [title |-> t, source_url |-> "https://a.com/r", domain |-> "a.com",
     description |-> "desc", language |-> ABSENT, body |-> "body"]

Directories ==
    UNION { [S -> {StoredFile("A"), StoredFile("B")}] : S \in SUBSET DirNames }

InitDuplicates ==
    /\ RETRY_COUNT = 0
    /\ NO_CACHE = FALSE
    /\ EU_COMPLIANCE = FALSE
    /\ CRAWLER_TIMEOUT = 0
    /\ START_FROM_INDEX = 1
    /\ duplicates_only = TRUE
    /\ SITEMAP_URL = SITEMAP
    /\ sitemap_response = NoSitemapResponse
    /\ get_count = 0
    /\ runs = 1
    /\ moves = NoMoves
    /\ resolved = <<>>
    /\ pc = "start"
    /\ urls = <<>>
    /\ total_urls = 0
    /\ i = 0
    /\ successful_urls = <<>>
    /\ failed_urls = <<>>
    /\ elapsed = 0
    /\ raised = "none"
    /\ attempt = 0
    /\ data = NoData
    /\ content = None
    /\ reason = "none"
    /\ log = <<>>
    /\ files \in Directories
    /\ dupFiles = EmptyFn
    /\ failedFile = <<>>
    /\ summary = NoSummary
    /\ duplicate_stats = EmptyFn
    /\ forced_before = FALSE
    /\ api_title = <<>>
    /\ title_line = <<>>
    /\ yaml_title = <<>>
    /\ read_back = NotRead
    /\ ImporterIdle
    /\ delay_count = 0
    /\ analyze_calls = 0
    /\ report_calls = 0

(* lines 457-466: no directory, or no record file in it *)
DuplicatesOnlyNoFiles ==
    /\ pc = "start"
    /\ duplicates_only
    /\ DOMAIN files = {}
    /\ pc' = "exit"
    /\ UNCHANGED <<importer, pipeline, history, config, invocation, counters, resolved, urls, total_urls, i, lists, elapsed, raised,
                   fetchVars, fsVars>>

(* lines 450-471: the classifier is called next, then generate_report([], [], ...) *)
DuplicatesOnlyStart ==
    /\ pc = "start"
    /\ duplicates_only
    /\ DOMAIN files # {}
    /\ successful_urls' = <<>>
    /\ failed_urls' = <<>>
    /\ pc' = "analyze"
    /\ UNCHANGED <<importer, pipeline, history, config, invocation, counters, resolved, urls, total_urls, i, elapsed, raised,
                   fetchVars, fsVars>>

(* the command is run again over the directory as the last run left it: a  *)
(* new process, whose only inheritance is the directory                    *)
Rerun ==
    /\ pc = "done"
    /\ duplicates_only
    /\ runs < MaxRuns
    /\ runs' = runs + 1
    /\ duplicate_stats' = EmptyFn
    /\ analyze_calls' = 0
    /\ report_calls' = 0
    /\ pc' = "start"
    /\ UNCHANGED <<importer, pipeline, history, config, duplicates_only, SITEMAP_URL, sitemap_response, get_count, moves,
                   delay_count, resolved, urls, total_urls, i, lists, elapsed, raised, fetchVars,
                   files, dupFiles, failedFile, summary>>

NextDuplicates ==
    \/ DuplicatesOnlyNoFiles
    \/ DuplicatesOnlyStart
    \/ AnalyzeDuplicates
    \/ GenerateReport
    \/ Rerun

SpecDuplicates == InitDuplicates /\ [][NextDuplicates]_vars

(***************************************************************************)
(* main(), lines 441-609: an invocation of the program in either mode,     *)
(* with or without --duplicates-only.                                      *)
(***************************************************************************)
InitInvocation == InitSitemap \/ InitDuplicates

NextInvocation ==
    \/ NextSitemap
    \/ DuplicatesOnlyNoFiles
    \/ DuplicatesOnlyStart
    \/ Rerun

SpecInvocation == InitInvocation /\ [][NextInvocation]_vars

(***************************************************************************)
(* The crawl over the URLs on which the file name derivation of            *)
(* save_markdown (lines 304-308) has something to decide: a trailing       *)
(* slash, an empty path, a leading www.                                    *)
(***************************************************************************)
WriterUrls ==
    {"https://a.com/y", "https://a.com/y/", "https://a.com", "https://a.com/",
     "https://www.a.com/x"}

InitWriter ==
    /\ RETRY_COUNT = 0
    /\ NO_CACHE = FALSE
    /\ EU_COMPLIANCE = FALSE
    /\ CRAWLER_TIMEOUT = 0
    /\ START_FROM_INDEX = 1
    /\ duplicates_only = FALSE
    /\ SITEMAP_URL = SITEMAP
    /\ resolved \in SeqsUpTo(WriterUrls, MaxUrls)
    /\ sitemap_response = SitemapDoc(resolved)
    /\ get_count = 1
    /\ runs = 1
    /\ moves = NoMoves
    /\ pc = "main"
    /\ urls = <<>>
    /\ total_urls = 0
    /\ i = 0
    /\ successful_urls = <<>>
    /\ failed_urls = <<>>
    /\ elapsed = 0
    /\ raised = "none"
    /\ attempt = 0
    /\ data = NoData
    /\ content = None
    /\ reason = "none"
    /\ log = <<>>
    /\ files = EmptyFn
    /\ dupFiles = EmptyFn
    /\ failedFile = <<>>
    /\ summary = NoSummary
    /\ duplicate_stats = EmptyFn
    /\ forced_before = FALSE
    /\ api_title = <<>>
    /\ title_line = <<>>
    /\ yaml_title = <<>>
    /\ read_back = NotRead
    /\ ImporterIdle
    /\ delay_count = 0
    /\ analyze_calls = 0
    /\ report_calls = 0

SpecWriter == InitWriter /\ [][Next]_vars

(***************************************************************************)
(* The way of a title from the API's answer to the classifier:             *)
(* fetch_with_jina puts it on the line "Title: ..." of the formatted       *)
(* content (line 176), save_markdown reads it back from that line and      *)
(* writes it as a double-quoted YAML value (lines 322-324, 344-354),       *)
(* extract_frontmatter loads the YAML (lines 204-223).  A title is a       *)
(* sequence of tokens: "k" an ordinary character, "q" a double quote, "b"  *)
(* a backslash, "s" a space, "T" the text "Title: ".                       *)
(***************************************************************************)
MaxTitleLen == 3

Tokens == {"k", "q", "b", "s", "T"}

(* line 176: f"Title: {title}" *)
FormatTitleLine(t) == <<"T">> \o t

RECURSIVE LStrip(_)
LStrip(t) == IF t # <<>> /\ Head(t) = "s" THEN LStrip(Tail(t)) ELSE t

RECURSIVE RStrip(_)
RStrip(t) ==
    IF t # <<>> /\ t[Len(t)] = "s" THEN RStrip(SubSeq(t, 1, Len(t) - 1)) ELSE t

(* lines 323-324: line.startswith("Title: "), then                         *)
(* line.replace("Title: ", "").strip(): every occurrence is removed        *)
ParseTitleLine(line) ==
    IF line # <<>> /\ Head(line) = "T"
    THEN LStrip(RStrip(SelectSeq(line, LAMBDA x : x # "T")))
    ELSE <<>>

(* lines 344-348: value.replace('"', '\\"'), nothing else is escaped *)
RECURSIVE EscapeYamlValue(_)
EscapeYamlValue(v) ==
    IF v = <<>> THEN <<>>
    ELSE (IF Head(v) = "q" THEN <<"b", "q">> ELSE <<Head(v)>>) \o EscapeYamlValue(Tail(v))

(* yaml.safe_load of the double-quoted scalar "v": a backslash starts an   *)
(* escape (\" \\ and "\ " among the known ones, an error for a character   *)
(* that is no escape or for the closing quote), a bare quote closes the    *)
(* scalar before its end, which is an error                                *)
RECURSIVE YamlLoadQuoted(_)
YamlLoadQuoted(v) ==
    IF v = <<>> THEN [ok |-> TRUE, title |-> <<>>]
    ELSE IF Head(v) = "q" THEN NotRead
    ELSE IF Head(v) = "b"
         THEN IF Len(v) >= 2 /\ v[2] \in {"q", "b", "s"}
              THEN LET rest == YamlLoadQuoted(Tail(Tail(v)))
                   IN IF rest.ok THEN [ok |-> TRUE, title |-> <<v[2]>> \o rest.title]
                      ELSE NotRead
              ELSE NotRead
    ELSE LET rest == YamlLoadQuoted(Tail(v))
         IN IF rest.ok THEN [ok |-> TRUE, title |-> <<Head(v)>> \o rest.title] ELSE NotRead

InitFrontmatter ==
    /\ RETRY_COUNT = 0
    /\ NO_CACHE = FALSE
    /\ EU_COMPLIANCE = FALSE
    /\ CRAWLER_TIMEOUT = 0
    /\ START_FROM_INDEX = 1
    /\ duplicates_only = FALSE
    /\ SITEMAP_URL = SITEMAP
    /\ resolved = <<>>
    /\ sitemap_response = NoSitemapResponse
    /\ get_count = 0
    /\ runs = 1
    /\ moves = NoMoves
    /\ pc = "format"
    /\ urls = <<>>
    /\ total_urls = 0
    /\ i = 0
    /\ successful_urls = <<>>
    /\ failed_urls = <<>>
    /\ elapsed = 0
    /\ raised = "none"
    /\ attempt = 0
    /\ data = NoData
    /\ content = None
    /\ reason = "none"
    /\ log = <<>>
    /\ files = EmptyFn
    /\ dupFiles = EmptyFn
    /\ failedFile = <<>>
    /\ summary = NoSummary
    /\ duplicate_stats = EmptyFn
    /\ forced_before = FALSE
    /\ api_title \in SeqsUpTo(Tokens, MaxTitleLen)
    /\ title_line = <<>>
    /\ yaml_title = <<>>
    /\ read_back = NotRead
    /\ ImporterIdle
    /\ delay_count = 0
    /\ analyze_calls = 0
    /\ report_calls = 0

(* fetch_with_jina, lines 163, 176 *)
FormatTitle ==
    /\ pc = "format"
    /\ title_line' = FormatTitleLine(api_title)
    /\ pc' = "write"
    /\ UNCHANGED <<api_title, yaml_title, read_back>>
    /\ UNCHANGED <<importer, history, config, invocation, counters, resolved, urls, total_urls, i, lists,
                   elapsed, raised, fetchVars, fsVars>>

(* save_markdown, lines 322-324, 344-354 *)
WriteTitle ==
    /\ pc = "write"
    /\ yaml_title' = EscapeYamlValue(ParseTitleLine(title_line))
    /\ pc' = "read"
    /\ UNCHANGED <<api_title, title_line, read_back>>
    /\ UNCHANGED <<importer, history, config, invocation, counters, resolved, urls, total_urls, i, lists,
                   elapsed, raised, fetchVars, fsVars>>

(* extract_frontmatter, lines 204-223, and analyze_duplicates, lines 243-247 *)
ReadTitle ==
    /\ pc = "read"
    /\ read_back' = YamlLoadQuoted(yaml_title)
    /\ pc' = "grouped"
    /\ UNCHANGED <<api_title, title_line, yaml_title>>
    /\ UNCHANGED <<importer, history, config, invocation, counters, resolved, urls, total_urls, i, lists,
                   elapsed, raised, fetchVars, fsVars>>

NextFrontmatter ==
    \/ FormatTitle
    \/ WriteTitle
    \/ ReadTitle

SpecFrontmatter == InitFrontmatter /\ [][NextFrontmatter]_vars

(***************************************************************************)
(* A crawl over an output location that an earlier run has used: that run  *)
(* left failed_urls.txt behind if it had a failure (lines 393-402); main   *)
(* only names the file before the loop (lines 543-544) and does not touch  *)
(* it.  failedFile holds the URL lines of the file, <<>> for no file.      *)
(***************************************************************************)
EARLIER_FAILED == "https://a.com/old"

Leftovers == {<<>>, <<EARLIER_FAILED>>}

InitSecondCrawl ==
    /\ RETRY_COUNT = 0
    /\ NO_CACHE = FALSE
    /\ EU_COMPLIANCE = FALSE
    /\ CRAWLER_TIMEOUT = 0
    /\ START_FROM_INDEX = 1
    /\ duplicates_only = FALSE
    /\ SITEMAP_URL = SITEMAP
    /\ resolved \in SeqsUpTo(URLS, MaxUrls)
    /\ sitemap_response = SitemapDoc(resolved)
    /\ get_count = 1
    /\ runs = 1
    /\ moves = NoMoves
    /\ pc = "main"
    /\ urls = <<>>
    /\ total_urls = 0
    /\ i = 0
    /\ successful_urls = <<>>
    /\ failed_urls = <<>>
    /\ elapsed = 0
    /\ raised = "none"
    /\ attempt = 0
    /\ data = NoData
    /\ content = None
    /\ reason = "none"
    /\ log = <<>>
    /\ files = EmptyFn
    /\ dupFiles = EmptyFn
    /\ failedFile \in Leftovers
    /\ summary = NoSummary
    /\ duplicate_stats = EmptyFn
    /\ forced_before = FALSE
    /\ api_title = <<>>
    /\ title_line = <<>>
    /\ yaml_title = <<>>
    /\ read_back = NotRead
    /\ ImporterIdle
    /\ delay_count = 0
    /\ analyze_calls = 0
    /\ report_calls = 0

SpecSecondCrawl == InitSecondCrawl /\ [][Next]_vars

(***************************************************************************)
(* src/dify.py: the knowledge-base importer, run over the directory the    *)
(* crawler and its classifier left.  The dataset is the server's state:    *)
(* documents maps the id of each document to its name, and the server      *)
(* takes a second document under a name that already has one.              *)
(***************************************************************************)
MaxDocs == 1

(* everything dify.py leaves alone *)
crawl == <<config, resolved, urls, total_urls, i, lists, elapsed, raised, fetchVars, fsVars,
           invocation, counters, history, pipeline>>

(* a record file as save_markdown wrote it at second d, with title t and   *)
(* markdown body b, crawler.py lines 352-382                               *)
DatedFile(t, d, b) ==
    [title |-> t, source_url |-> "https://a.com/r", domain |-> "a.com",
     crawl_date |-> d, description |-> "desc", language |-> ABSENT, body |-> b]

(* the record files of the model: one with an empty body, and two written *)
(* within one second whose titles differ only past their 147th character  *)
DatedFiles ==
    {DatedFile("A", 1, "body"), DatedFile("A", 1, ""),
     DatedFile(LONG1, 2, "body"), DatedFile(LONG2, 2, "body")}

ImportDirectories == UNION { [S -> DatedFiles] : S \in SUBSET DirNames }

(* lines 326-327: title[:147] + "..." for a title of more than 150 characters *)
TrimTitle(t) == IF t \in {LONG1, LONG2} THEN "L...147...L..." ELSE t

(* lines 322-330: doc_name = f"{title} ({crawl_date})" *)
DocName(f) == <<TrimTitle(f.title), f.crawl_date>>

DocNames == { DocName(f) : f \in DatedFiles }

(* the datasets the run can find: up to MaxDocs documents *)
Datasets == UNION { [S -> DocNames] : S \in SUBSET (1..MaxDocs) }

(* the path of a file of the directory: "." for the top level, the folder  *)
(* under duplicates/ for a relocated file                                  *)
TopLevelPath(n) == <<".", n>>

(* a plausible slip: rglob("*.md"), which descends into duplicates/ *)
GlobMdRecursive == { TopLevelPath(n) : n \in DOMAIN files } \cup DOMAIN dupFiles

(* lines 531-534: crawl_path.glob("*.md"), the top level only *)
GlobMd == { TopLevelPath(n) : n \in DOMAIN files }

(* line 291-292: the file at path p *)
ReadFile(p) == IF p[1] = "." THEN files[p[2]] ELSE dupFiles[p]

(* glob yields the files in an order of the file system's choosing *)
Orderings(S) ==
    { q \in [1..Cardinality(S) -> S] : \A a, b \in 1..Cardinality(S) : a # b => q[a] # q[b] }

(* lines 475-480: the cache after the documents of the pages received, in  *)
(* the order listed: a later document of the same name replaces the earlier *)
RECURSIVE CacheOf(_)
CacheOf(q) ==
    IF q = <<>> THEN EmptyFn
    ELSE LET c == CacheOf(SubSeq(q, 1, Len(q) - 1))
             d == q[Len(q)]
         IN [n \in (DOMAIN c) \cup {d.name} |-> IF n = d.name THEN d.id ELSE c[n]]

(* what GET /documents can do to _load_existing_documents_cache, lines     *)
(* 455-491.  The server lists the documents in an order of its choosing,   *)
(* in pages of 100; the documents of the model stand among others that     *)
(* fill the pages.  "complete": every page arrived and the last had no     *)
(* has_more.  "status": a page answered with a status other than 200       *)
(* (line 468) after the pages holding got had arrived.  "exception": a     *)
(* request or response.json() raised, and line 491 empties the cache.      *)
LoadOutcomes ==
    LET all == { [k \in 1..Len(q) |-> [id |-> q[k], name |-> documents[q[k]]]] :
                   q \in Orderings(DOMAIN documents) }
    IN { [kind |-> "complete", got |-> q] : q \in all }
       \cup { [kind |-> "status", got |-> SubSeq(q, 1, j)] :
                q \in all, j \in 0..Cardinality(DOMAIN documents) }
       \cup { [kind |-> "exception", got |-> <<>>] }

NoName == <<"", 0>>

ListRequest(o) ==
    [op |-> "list", ok |-> o.kind = "complete", id |-> 0, name |-> NoName, file |-> md_index,
     got |-> o.got]
DeleteRequest(id, ok) ==
    [op |-> "delete", ok |-> ok, id |-> id, name |-> NoName, file |-> md_index, got |-> <<>>]
CreateRequest(name, id, ok) ==
    [op |-> "create", ok |-> ok, id |-> id, name |-> name, file |-> md_index, got |-> <<>>]

(* a plausible slip: "if self.existing_documents_cache:" in place of       *)
(* "is not None", which takes an empty cache for one not loaded            *)
CacheUnloadedWhenEmpty == existing_documents_cache.byName = EmptyFn

(* lines 449-450 and 496: self.existing_documents_cache is None *)
CacheUnloaded == ~existing_documents_cache.loaded

(* _load_existing_documents_cache(), lines 447-491, with an outcome o of   *)
(* its GETs: line 453 sets the cache to {} before the first request        *)
LoadCache ==
    IF CacheUnloaded
    THEN \E o \in LoadOutcomes :
            /\ existing_documents_cache' = [loaded |-> TRUE, byName |-> CacheOf(o.got)]
            /\ requests' = Append(requests, ListRequest(o))
            /\ cache_loads' = cache_loads + 1
    ELSE UNCHANGED <<existing_documents_cache, requests, cache_loads>>

(* the program of the importer starts once the crawler's has ended *)
CrawlerEnded == pc \in {"done", "exit"}

(* main(), lines 582-644, and import_crawl_results, lines 521-538: no      *)
(* directory, or no markdown file at its top level                         *)
ImportNoFiles ==
    /\ CrawlerEnded
    /\ GlobMd = {}
    /\ pc' = "import_exit"
    /\ UNCHANGED <<crawl, importer>>

(* main(), lines 582-644, and import_crawl_results, lines 521-554: a new   *)
(* importer, the files found, and the cache loaded ahead when              *)
(* SKIP_EXISTING is set                                                    *)
ImportStart ==
    /\ CrawlerEnded
    /\ GlobMd # {}
    /\ md_files' \in Orderings(GlobMd)
    /\ md_index' = 1
    /\ successful_imports' = <<>>
    /\ failed_imports' = <<>>
    /\ IF SKIP_EXISTING
       THEN LoadCache
       ELSE UNCHANGED <<existing_documents_cache, requests, cache_loads>>
    /\ pc' = "import_loop"
    /\ UNCHANGED <<crawl, SKIP_EXISTING, documents>>

md_file == md_files[md_index]
doc_name == DocName(ReadFile(md_file))

(* lines 556, 572-580: the loop is over *)
ImportLoopEnd ==
    /\ pc = "import_loop"
    /\ md_index > Len(md_files)
    /\ pc' = "import_done"
    /\ UNCHANGED <<crawl, importer>>

(* lines 315-319 and 567-570: a file without content (or one whose         *)
(* frontmatter does not load, lines 306-308) is a failed import            *)
ImportEmptyContent ==
    /\ pc = "import_loop"
    /\ md_index <= Len(md_files)
    /\ ReadFile(md_file).body = ""
    /\ failed_imports' = Append(failed_imports, md_file)
    /\ md_index' = md_index + 1
    /\ UNCHANGED <<crawl, pc, SKIP_EXISTING, documents, existing_documents_cache, md_files,
                   successful_imports, requests, cache_loads>>

(* lines 321-341 with _find_existing_document, lines 493-499: the name is  *)
(* looked up in the cache, which is loaded first when it never was; a name *)
(* found is either skipped, and its file counted as imported (lines 336-338 *)
(* and 563-566), or its document is to be deleted                          *)
FindExistingDocument ==
    /\ pc = "import_loop"
    /\ md_index <= Len(md_files)
    /\ ReadFile(md_file).body # ""
    /\ LoadCache
    /\ LET found == doc_name \in DOMAIN existing_documents_cache'.byName
       IN IF found /\ SKIP_EXISTING
          THEN /\ successful_imports' = Append(successful_imports, md_file)
               /\ md_index' = md_index + 1
               /\ pc' = "import_loop"
          ELSE /\ pc' = IF found THEN "delete" ELSE "create"
               /\ UNCHANGED <<successful_imports, md_index>>
    /\ UNCHANGED <<crawl, SKIP_EXISTING, documents, md_files, failed_imports>>

existing_doc_id == existing_documents_cache.byName[doc_name]

(* _delete_document(existing_doc_id), lines 341 and 501-519: the server    *)
(* deletes the document or does not; the answer is printed and dropped     *)
DeleteDocument ==
    /\ pc = "delete"
    /\ \E ok \in IF existing_doc_id \in DOMAIN documents THEN BOOLEAN ELSE {FALSE} :
          /\ documents' = IF ok THEN [d \in (DOMAIN documents) \ {existing_doc_id} |-> documents[d]]
                                ELSE documents
          /\ requests' = Append(requests, DeleteRequest(existing_doc_id, ok))
    /\ pc' = "create"
    /\ UNCHANGED <<crawl, SKIP_EXISTING, existing_documents_cache, md_files, md_index,
                   successful_imports, failed_imports, cache_loads>>

(* the id the server gives the next document *)
FreshId ==
    MaxDocs + 1 + Cardinality({ k \in DOMAIN requests : requests[k].op = "create" /\ requests[k].ok })

(* lines 345-369 with _create_document_api, lines 375-424, and the caller, *)
(* lines 563-570: the document is created and the file counted as          *)
(* imported, or the request fails and the file is counted as failed        *)
CreateDocument ==
    /\ pc = "create"
    /\ \E ok \in BOOLEAN :
          /\ documents' = IF ok THEN [d \in (DOMAIN documents) \cup {FreshId} |->
                                        IF d = FreshId THEN doc_name ELSE documents[d]]
                                ELSE documents
          /\ requests' = Append(requests, CreateRequest(doc_name, IF ok THEN FreshId ELSE 0, ok))
          /\ successful_imports' = IF ok THEN Append(successful_imports, md_file)
                                         ELSE successful_imports
          /\ failed_imports' = IF ok THEN failed_imports ELSE Append(failed_imports, md_file)
    /\ md_index' = md_index + 1
    /\ pc' = "import_loop"
    /\ UNCHANGED <<crawl, SKIP_EXISTING, existing_documents_cache, md_files, cache_loads>>

(* the directory an earlier crawl left, the operator's SKIP_EXISTING and   *)
(* the dataset before the run; the classifier runs first (main of          *)
(* crawler.py with --duplicates-only), then dify.py                        *)
InitImport ==
    /\ RETRY_COUNT = 0
    /\ NO_CACHE = FALSE
    /\ EU_COMPLIANCE = FALSE
    /\ CRAWLER_TIMEOUT = 0
    /\ START_FROM_INDEX = 1
    /\ duplicates_only = TRUE
    /\ SITEMAP_URL = SITEMAP
    /\ sitemap_response = NoSitemapResponse
    /\ get_count = 0
    /\ runs = 1
    /\ moves = NoMoves
    /\ resolved = <<>>
    /\ pc = "start"
    /\ urls = <<>>
    /\ total_urls = 0
    /\ i = 0
    /\ successful_urls = <<>>
    /\ failed_urls = <<>>
    /\ elapsed = 0
    /\ raised = "none"
    /\ attempt = 0
    /\ data = NoData
    /\ content = None
    /\ reason = "none"
    /\ log = <<>>
    /\ files \in ImportDirectories
    /\ dupFiles = EmptyFn
    /\ failedFile = <<>>
    /\ summary = NoSummary
    /\ duplicate_stats = EmptyFn
    /\ forced_before = FALSE
    /\ api_title = <<>>
    /\ title_line = <<>>
    /\ yaml_title = <<>>
    /\ read_back = NotRead
    /\ SKIP_EXISTING \in BOOLEAN
    /\ documents \in Datasets
    /\ existing_documents_cache = NoCache
    /\ md_files = <<>>
    /\ md_index = 0
    /\ successful_imports = <<>>
    /\ failed_imports = <<>>
    /\ requests = <<>>
    /\ cache_loads = 0
    /\ delay_count = 0
    /\ analyze_calls = 0
    /\ report_calls = 0

NextImport ==
    \/ DuplicatesOnlyNoFiles
    \/ DuplicatesOnlyStart
    \/ AnalyzeDuplicates
    \/ GenerateReport
    \/ ImportNoFiles
    \/ ImportStart
    \/ ImportLoopEnd
    \/ ImportEmptyContent
    \/ FindExistingDocument
    \/ DeleteDocument
    \/ CreateDocument

SpecImport == InitImport /\ [][NextImport]_vars

(***************************************************************************)
(* Vocabulary of the properties, stated on the raw answers in log.         *)
(***************************************************************************)
(* a warning that contains "cached snapshot", whatever its case *)
CachedSnapshotWarning(w) == w = "This is a Cached Snapshot of the page"

IsPost(e) == e.ev = "post"
IsGenericPost(e) == e.ev = "post" /\ ~e.forced
IsForcedPost(e) == e.ev = "post" /\ e.forced
IsBackoff(e) == e.ev = "sleep" /\ e.secs = 2

GenericPosts == SelectSeq(log, IsGenericPost)
ForcedPosts == SelectSeq(log, IsForcedPost)
AllPosts == SelectSeq(log, IsPost)
Backoffs == SelectSeq(log, IsBackoff)

(* the answer was a timeout, a connection failure or a status >= 400 *)
RetryableFailure(e) ==
    \/ e.exc \in {"Timeout", "ConnectionError"}
    \/ e.exc = "none" /\ e.status >= 400

HTTPErrorAnswer(e) == e.exc = "none" /\ e.status >= 400
NonJSONAnswer(e) == e.exc = "none" /\ e.status < 400 /\ ~e.json
ParsedAnswer(e) == e.exc = "none" /\ e.status < 400 /\ e.json
StaleAnswer(e) == ParsedAnswer(e) /\ CachedSnapshotWarning(e.warning)
CleanAnswer(e) == ParsedAnswer(e) /\ ~CachedSnapshotWarning(e.warning)

(***************************************************************************)
(* C1: one call of the fetcher ends with exactly one outcome, a success    *)
(* record or a failure, and never with an error that escapes the call,     *)
(* whatever the upstream does (any other transport error included).        *)
(***************************************************************************)
C1_FetchNeverRaises == ~(pc = "crashed" /\ raised = "RequestException")

(***************************************************************************)
(* C2: when every attempt of a fetch is answered with a status >= 400, the *)
(* fetch fails after exactly RETRY_COUNT + 1 requests and exactly          *)
(* RETRY_COUNT backoffs of 2 time-units, one between each two consecutive  *)
(* requests and none after the last request.                               *)
(***************************************************************************)
EveryAttemptHTTPError ==
    /\ AllPosts # <<>>
    /\ \A k \in 1..Len(AllPosts) : HTTPErrorAnswer(AllPosts[k])

C2_HTTPErrorsUseWholeBudget ==
    (pc = "save" /\ EveryAttemptHTTPError) =>
        /\ content.isNone
        /\ Len(AllPosts) = RETRY_COUNT + 1
        /\ Len(ForcedPosts) = 0
        /\ Len(Backoffs) = RETRY_COUNT
        /\ Len(log) = 2 * RETRY_COUNT + 1
        /\ \A k \in 1..Len(log) :
              IF k % 2 = 1 THEN IsGenericPost(log[k]) ELSE IsBackoff(log[k])

C2_Witness ==
    /\ pc = "save"
    /\ EveryAttemptHTTPError
    /\ RETRY_COUNT = 1
    /\ content.isNone
    /\ Len(AllPosts) = 2
    /\ AllPosts[1].status = 503 /\ AllPosts[2].status = 503
    /\ Len(Backoffs) = 1

(***************************************************************************)
(* C3: timeouts, connection failures and status >= 400 answers draw on one *)
(* budget: at most RETRY_COUNT + 1 non-forced requests per fetch; a        *)
(* non-forced request that is followed by another one was such a failure   *)
(* (the first answer with a status below 400 ends the generic retrying);   *)
(* and a fetch that ended right after such a failure had used the whole    *)
(* budget, while a fetch still about to send has not.                      *)
(***************************************************************************)
C3_OneAttemptBudget ==
    /\ Len(GenericPosts) <= RETRY_COUNT + 1
    /\ \A k \in 1..(Len(GenericPosts) - 1) : RetryableFailure(GenericPosts[k])
    /\ (pc = "save" /\ log # <<>> /\ RetryableFailure(log[Len(log)]) /\ IsGenericPost(log[Len(log)]))
          => Len(GenericPosts) = RETRY_COUNT + 1
    /\ (pc = "post") => (Len(GenericPosts) = attempt /\ attempt < RETRY_COUNT + 1)
    /\ (pc = "post" /\ log # <<>>) =>
          (IsBackoff(log[Len(log)]) /\ RetryableFailure(log[Len(log) - 1]))

C3_Witness ==
    /\ pc = "save"
    /\ RETRY_COUNT = 1
    /\ Len(GenericPosts) = 2
    /\ GenericPosts[1].exc = "Timeout"
    /\ HTTPErrorAnswer(GenericPosts[2])
    /\ content.isNone

(***************************************************************************)
(* C4: an answer with a status below 400 and a body that is not JSON ends  *)
(* the fetch in failure at once: it is the last thing the fetch did, also  *)
(* when attempts remain.                                                   *)
(***************************************************************************)
C4_InvalidJSONIsTerminal ==
    \A k \in 1..Len(log) :
        (IsPost(log[k]) /\ NonJSONAnswer(log[k])) =>
            (k = Len(log) /\ pc = "save" /\ content.isNone)

C4_Witness ==
    /\ pc = "save"
    /\ log # <<>>
    /\ IsGenericPost(log[Len(log)])
    /\ NonJSONAnswer(log[Len(log)])
    /\ Len(GenericPosts) < RETRY_COUNT + 1
    /\ content.isNone

(***************************************************************************)
(* C5: with NO_CACHE false, a parsed answer that carries a cached-snapshot *)
(* warning is followed by a 1-unit sleep and exactly one forced no-cache   *)
(* request, whatever number of attempts was used; a fetch sends at most    *)
(* one forced request, at most RETRY_COUNT + 2 requests in all, and a      *)
(* forced request only right after a cached-snapshot warning.              *)
(***************************************************************************)
C5_OneForcedRequest ==
    /\ Len(ForcedPosts) <= 1
    /\ Len(AllPosts) <= RETRY_COUNT + 2
    /\ \A k \in 1..Len(log) :
          IsForcedPost(log[k]) =>
              /\ k >= 3
              /\ log[k].nocache
              /\ log[k - 1].ev = "sleep" /\ log[k - 1].secs = 1
              /\ IsGenericPost(log[k - 2]) /\ StaleAnswer(log[k - 2])
              /\ ~NO_CACHE
    /\ \A k \in 1..Len(log) :
          (~NO_CACHE /\ IsGenericPost(log[k]) /\ StaleAnswer(log[k])) =>
              /\ k + 1 <= Len(log)
              /\ log[k + 1].ev = "sleep" /\ log[k + 1].secs = 1
              /\ IF k + 2 <= Len(log)
                   THEN IsForcedPost(log[k + 2]) /\ Len(ForcedPosts) = 1
                   ELSE pc = "cache_retry"

C5_Witness ==
    /\ pc = "save"
    /\ ~NO_CACHE
    /\ RETRY_COUNT = 1
    /\ Len(GenericPosts) = 2
    /\ StaleAnswer(GenericPosts[2])
    /\ Len(ForcedPosts) = 1
    /\ Len(AllPosts) = RETRY_COUNT + 2

(***************************************************************************)
(* C6: a forced request that is answered with the warning again, with a    *)
(* transport error, with a status >= 400 or with a body that is not JSON   *)
(* ends the fetch in failure at once, also when attempts remain.           *)
(***************************************************************************)
ForcedRequestFailed(e) ==
    \/ e.exc # "none"
    \/ HTTPErrorAnswer(e)
    \/ NonJSONAnswer(e)
    \/ StaleAnswer(e)

C6_FailedForcedRequestIsTerminal ==
    \A k \in 1..Len(log) :
        (IsForcedPost(log[k]) /\ ForcedRequestFailed(log[k])) =>
            (k = Len(log) /\ pc = "save" /\ content.isNone)

C6_Witness ==
    /\ pc = "save"
    /\ log # <<>>
    /\ IsForcedPost(log[Len(log)])
    /\ HTTPErrorAnswer(log[Len(log)])
    /\ Len(GenericPosts) < RETRY_COUNT + 1
    /\ content.isNone

(***************************************************************************)
(* C7: when the forced request returns a clean parsed body, the fetch      *)
(* succeeds and every field of the record is taken from the forced         *)
(* answer (the url defaulting to the requested one, the language empty on  *)
(* the restricted endpoint), none from the cached answer before it.        *)
(***************************************************************************)
C7_RecordComesFromForcedAnswer ==
    (pc = "save" /\ log # <<>> /\ IsForcedPost(log[Len(log)]) /\ CleanAnswer(log[Len(log)])) =>
        LET fresh == log[Len(log)].data
        IN /\ ~content.isNone
           /\ content.title = fresh.title
           /\ content.content = fresh.content
           /\ content.description = fresh.description
           /\ content.url_source = (IF fresh.url = ABSENT THEN urls[i] ELSE fresh.url)
           /\ content.lang = (IF EU_COMPLIANCE THEN "" ELSE fresh.lang)

C7_Witness ==
    /\ pc = "save"
    /\ Len(log) >= 3
    /\ IsForcedPost(log[Len(log)])
    /\ CleanAnswer(log[Len(log)])
    /\ StaleAnswer(log[Len(log) - 2])
    /\ log[Len(log) - 2].data.title = "A"
    /\ log[Len(log)].data.title = "B"
    /\ ~content.isNone
    /\ content.title = "B"
    /\ content.content = "b-body"

(***************************************************************************)
(* C8: in every configuration, NO_CACHE true included, a success record is *)
(* built only from an answer that was parsed as JSON and carries no        *)
(* cached-snapshot warning.                                                *)
(***************************************************************************)
C8_SuccessOnlyFromFreshAnswer ==
    (pc = "save" /\ ~content.isNone) =>
        (log # <<>> /\ IsPost(log[Len(log)]) /\ CleanAnswer(log[Len(log)]))

(***************************************************************************)
(* C9: a fetch that returned a failure, whatever its kind, never ends the  *)
(* crawl: the URL is appended to the failure list (the success list is     *)
(* untouched, no exception leaves main) and the loop goes to its next      *)
(* iteration, which fetches the next URL unless the list is exhausted or   *)
(* the deadline check stops the run.                                       *)
(***************************************************************************)
FailureReasons ==
    {"Timeout", "ConnectionError", "HTTP error", "Invalid JSON", "Error on cache retry",
     "Invalid JSON on retry", "Still cached"}

C9_FailedFetchDoesNotEndCrawl ==
    [][ /\ (pc = "save" /\ content.isNone) =>
              /\ reason \in FailureReasons
              /\ failed_urls' = Append(failed_urls, urls[i])
              /\ successful_urls' = successful_urls
              /\ raised' = "none"
              /\ i' = i + 1
              /\ pc' = "loop"
        /\ (pc = "loop" /\ i <= Len(urls) /\ ~(CRAWLER_TIMEOUT > 0 /\ elapsed > CRAWLER_TIMEOUT)) =>
              (pc' = "post" /\ i' = i /\ UNCHANGED lists)
      ]_vars

C9_Witness ==
    /\ pc = "loop"
    /\ i = 2
    /\ Len(urls) = 2
    /\ failed_urls = <<urls[1]>>
    /\ successful_urls = <<>>
    /\ reason = "Still cached"
    /\ ~(CRAWLER_TIMEOUT > 0 /\ elapsed > CRAWLER_TIMEOUT)

(***************************************************************************)
(* C10: a failure to write the record file of one URL loses only that URL: *)
(* the run is not stopped by it, so the remaining URLs are fetched and the *)
(* classifier and the report generator still run.                          *)
(***************************************************************************)
C10_WriteFailureDoesNotEndRun == ~(pc = "crashed" /\ raised = "OSError")

(***************************************************************************)
(* Vocabulary of the properties of a run.                                  *)
(***************************************************************************)
Range(q) == { q[k] : k \in 1..Len(q) }
Processed == Len(successful_urls) + Len(failed_urls)
InFetch == pc \in {"post", "cache_retry", "save"}
LoopLeft == pc \in {"analyze", "report", "done"}
BudgetElapsed == CRAWLER_TIMEOUT > 0 /\ elapsed > CRAWLER_TIMEOUT

(***************************************************************************)
(* C11: at every point of a run, for every input list (one that repeats a  *)
(* URL included), the set of succeeded URLs and the set of failed URLs are *)
(* disjoint, and at the end of the run their union has as many members as  *)
(* the list has URLs that the deadline did not abandon.                    *)
(***************************************************************************)
C11_SetsDisjointAndCoverList ==
    /\ Range(successful_urls) \cap Range(failed_urls) = {}
    /\ (pc = "done") =>
          Cardinality(Range(successful_urls) \cup Range(failed_urls))
              = Len(urls) - (Len(urls) - (i - 1))

(***************************************************************************)
(* C12: the deadline is checked at the head of each loop iteration and     *)
(* only there.  A check that finds a non-zero budget elapsed ends the loop *)
(* with the lists as they are; after it no fetch is made and the lists     *)
(* hold the i - 1 URLs processed before, none of the rest.  A check that   *)
(* does not find it (always so with budget 0) starts the fetch.  A fetch   *)
(* in flight is never stopped by the budget: it runs to its return, and    *)
(* the step that records it appends its URL to one list.                   *)
(***************************************************************************)
C12_DeadlineCheckedBeforeEachUrlOnly ==
    /\ [](LoopLeft => Processed = i - 1)
    /\ [][ /\ (pc = "loop" /\ BudgetElapsed) =>
                 (pc' = "analyze" /\ UNCHANGED <<successful_urls, failed_urls, i, log>>)
           /\ (pc = "loop" /\ ~BudgetElapsed /\ i <= Len(urls)) => pc' = "post"
           /\ (pc = "loop" /\ CRAWLER_TIMEOUT = 0 /\ pc' = "analyze") => i = Len(urls) + 1
           /\ LoopLeft => (LoopLeft' /\ UNCHANGED <<successful_urls, failed_urls, i, log>>)
           /\ (pc \in {"post", "cache_retry"}) => pc' \in {"post", "cache_retry", "save", "crashed"}
           /\ (pc = "save" /\ pc' # "crashed") =>
                 /\ pc' = "loop"
                 /\ \/ successful_urls' = Append(successful_urls, urls[i])
                          /\ failed_urls' = failed_urls
                    \/ failed_urls' = Append(failed_urls, urls[i])
                          /\ successful_urls' = successful_urls
         ]_vars

C12_Witness ==
    /\ pc = "analyze"
    /\ CRAWLER_TIMEOUT > 0
    /\ elapsed > CRAWLER_TIMEOUT
    /\ Len(urls) = 2
    /\ i = 2
    /\ Processed = 1
    /\ urls[2] \notin Range(successful_urls) \cup Range(failed_urls)

(***************************************************************************)
(* C13: in a run whose loop ended, by exhausting the list or by the        *)
(* deadline, the classifier is called exactly once, after the last fetch,  *)
(* and the report generator exactly once, after the classifier: the final  *)
(* report is never written before the classifier has returned and no       *)
(* fetch is made once the classifier has been called.                      *)
(***************************************************************************)
C13_ClassifierThenReportOnce ==
    /\ (pc \in {"main", "exit", "loop", "post", "cache_retry", "save", "crashed", "analyze"})
          => (analyze_calls = 0 /\ report_calls = 0)
    /\ (pc = "analyze") => (i > Len(urls) \/ BudgetElapsed)
    /\ (pc = "report") => (analyze_calls = 1 /\ report_calls = 0)
    /\ (pc = "done") => (analyze_calls = 1 /\ report_calls = 1)
    /\ (summary.kind = "final") => (pc = "done" /\ analyze_calls = 1)
    /\ (pc \in {"analyze", "report"}) => ENABLED Next

C13_Witness ==
    /\ pc = "done"
    /\ analyze_calls = 1
    /\ report_calls = 1
    /\ summary.kind = "final"
    /\ i <= Len(urls)
    /\ Processed = 1

(***************************************************************************)
(* C14: for a resolved list of n >= 1 URLs and start index s: with         *)
(* 1 <= s <= n the run processes exactly the URLs at positions s..n, in    *)
(* order; with s < 1 or s > n the run ends before any fetch and no list    *)
(* receives a URL.                                                         *)
(***************************************************************************)
C14_StartIndexSelectsSuffix ==
    /\ []( (Len(resolved) >= 1 /\ 1 <= START_FROM_INDEX /\ START_FROM_INDEX <= Len(resolved)
              /\ pc # "main") =>
              /\ pc # "exit"
              /\ Len(urls) = Len(resolved) - START_FROM_INDEX + 1
              /\ \A k \in 1..Len(urls) : urls[k] = resolved[START_FROM_INDEX + k - 1]
              /\ (InFetch => i \in 1..Len(urls))
              /\ (pc = "done" /\ CRAWLER_TIMEOUT = 0) => Processed = Len(urls) )
    /\ []( (Len(resolved) >= 1 /\ (START_FROM_INDEX < 1 \/ START_FROM_INDEX > Len(resolved))) =>
              /\ pc \in {"main", "exit"}
              /\ successful_urls = <<>> /\ failed_urls = <<>>
              /\ log = <<>> )
    /\ [][ (pc = "save" /\ pc' = "loop") =>
              /\ Processed = i - 1
              /\ Processed' = i
              /\ resolved[START_FROM_INDEX + i - 1]
                    \in Range(successful_urls') \cup Range(failed_urls')
              /\ \/ successful_urls' = Append(successful_urls, resolved[START_FROM_INDEX + i - 1])
                 \/ failed_urls' = Append(failed_urls, resolved[START_FROM_INDEX + i - 1])
         ]_vars

C14_Witness ==
    /\ pc = "done"
    /\ Len(resolved) = 2
    /\ START_FROM_INDEX = 2
    /\ resolved[1] # resolved[2]
    /\ Len(urls) = 1
    /\ Processed = 1
    /\ Range(successful_urls) \cup Range(failed_urls) = {resolved[2]}

(***************************************************************************)
(* C15: the inter-request delay never follows the last step of a run: a    *)
(* run that processed k >= 1 URLs, whether it ended by completion or by    *)
(* the deadline, slept exactly k - 1 delays.                               *)
(***************************************************************************)
C15_NoDelayAfterLastStep ==
    (LoopLeft /\ Processed >= 1) => delay_count = Processed - 1

(***************************************************************************)
(* C16: when the target ends in .xml and the sitemap GET fails or its body *)
(* is not well-formed XML, the resolver has made exactly one GET, what it  *)
(* hands to the caller differs from what it hands over for a sitemap that  *)
(* validly lists no URL (the empty list), and the run processes no URL: no *)
(* fetch, nothing in the success or the failure list.                      *)
(***************************************************************************)
C16_SitemapFailureIsADistinctError ==
    (pc # "start" /\ SITEMAP_URL = SITEMAP /\ sitemap_response.kind \in {"error", "malformed"}) =>
        /\ get_count = 1
        /\ resolved # <<>>
        /\ log = <<>>
        /\ successful_urls = <<>>
        /\ failed_urls = <<>>

(***************************************************************************)
(* C17: for a well-formed sitemap the resolver returns exactly the trimmed *)
(* loc texts of the entries whose loc is present and not empty or          *)
(* whitespace-only, in document order; the empty string is never returned. *)
(***************************************************************************)
C17_OnlyNonEmptyLocsReturned ==
    (pc # "start" /\ SITEMAP_URL = SITEMAP /\ sitemap_response.kind = "ok") =>
        LET valid == SelectSeq(sitemap_response.locs,
                               LAMBDA t : t \notin {LOC_MISSING, "", LOC_BLANK})
        IN /\ Len(resolved) = Len(valid)
           /\ \A k \in 1..Len(valid) :
                 resolved[k] = (IF valid[k] = LOC_PADDED THEN "https://a.com/y" ELSE valid[k])
           /\ "" \notin Range(resolved)

(***************************************************************************)
(* Vocabulary of the properties of the classifier: the titles that more    *)
(* than one top-level file of a directory carries.                         *)
(***************************************************************************)
SharedTitle(fs, n) == \E m \in DOMAIN fs : m # n /\ fs[m].title = fs[n].title
InSubfolder(n) == \E d \in DOMAIN dupFiles : d[2] = n
Relocated(fs, n) ==
    /\ n \notin DOMAIN files'
    /\ \E d \in DOMAIN dupFiles' : d[2] = n /\ dupFiles'[d] = fs[n]
    /\ \A m \in DOMAIN fs :
          (fs[m].title = fs[n].title) =>
             \A d, e \in DOMAIN dupFiles' : (d[2] = n /\ e[2] = m /\ m \notin DOMAIN files') => d[1] = e[1]
LeftInPlace(fs, n) == n \in DOMAIN files' /\ files'[n] = fs[n]

C20_SummaryCountsMatchDirectory ==
    (pc = "done" /\ DOMAIN duplicate_stats # {}) =>
        /\ summary.duplicates = Cardinality(moves.relocated)
        /\ summary.unique = Cardinality(DOMAIN files)
        /\ summary.unique >= 0

(***************************************************************************)
(* C21: in a crawl run over an empty output directory, as long as the      *)
(* classifier has not moved anything, the directory holds one record file  *)
(* per succeeded URL: as many files as the success list has entries, no    *)
(* record having been overwritten by the record of another succeeded URL.  *)
(***************************************************************************)
C21_OneRecordFilePerSucceededUrl ==
    (pc \in {"loop", "post", "cache_retry", "save", "analyze"}) =>
        Cardinality(DOMAIN files) = Len(successful_urls)

(***************************************************************************)
(* Vocabulary of the properties of the writer: the file name the spec      *)
(* gives for a URL (host without a leading www., the path without its      *)
(* outer slashes, index for an empty path), and a step that wrote a        *)
(* record.                                                                 *)
(***************************************************************************)
ExpectedFileName(u) ==
    CASE u \in {"https://a.com/y", "https://a.com/y/"} -> <<"a.com", "y">>
      [] u \in {"https://a.com", "https://a.com/"} -> <<"a.com", "index">>
      [] u = "https://www.a.com/x" -> <<"a.com", "x">>
      [] u = "https://a.com/r" -> <<"a.com", "r">>

RecordWritten == pc = "save" /\ ~content.isNone /\ pc' = "loop"

WrittenTo(n) ==
    /\ DOMAIN files' = DOMAIN files \cup {n}
    /\ files'[n].source_url = content.url_source
    /\ \A m \in DOMAIN files \ {n} : files'[m] = files[m]

C23_ClassifierOnlyAfterFetching ==
    LoopLeft => (resolved # <<>> /\ Processed >= 1)

(***************************************************************************)
(* C23, amended: in an invocation without --duplicates-only the classifier *)
(* (and the report) is reached only after the URL list was resolved and    *)
(* the loop has fetched; an invocation with --duplicates-only reaches them *)
(* over the existing directory without resolving a URL list and without a  *)
(* fetch.                                                                  *)
(***************************************************************************)
C23_ClassifierAfterFetchingUnlessDuplicatesOnly ==
    LoopLeft =>
        IF duplicates_only
        THEN get_count = 0 /\ resolved = <<>> /\ urls = <<>> /\ Processed = 0 /\ log = <<>>
        ELSE resolved # <<>> /\ urls # <<>> /\ Processed >= 1 /\ i >= 2

C23_Witness ==
    /\ duplicates_only
    /\ pc = "done"
    /\ analyze_calls = 1
    /\ report_calls = 1
    /\ DOMAIN dupFiles # {}
    /\ get_count = 0
    /\ Processed = 0

(***************************************************************************)
(* C24: when a crawl run has ended, whatever an earlier run left in the    *)
(* output location, the failed-URL file exists if and only if the failure  *)
(* list of this run is not empty, and its URL lines are this run's failed  *)
(* URLs in failure order.                                                  *)
(***************************************************************************)
C24_FailedFileIsThisRunsFailures ==
    (pc = "done") => failedFile = failed_urls

(* q is a subsequence of t: the entries of q are entries of t, in t's order *)
IsSubsequence(q, t) ==
    \E f \in [1..Len(q) -> 1..Len(t)] :
        /\ \A k \in 1..Len(q) : q[k] = t[f[k]]
        /\ \A k \in 1..Len(q) : \A j \in 1..Len(q) : k < j => f[k] < f[j]

(***************************************************************************)
(* C25: the success and the failure list only grow, by the orchestrator's  *)
(* recording step alone: that step appends the URL being processed to      *)
(* exactly one of them, every other step (of the fetcher, the classifier,  *)
(* the report generator) leaves both as they are, and both are at all      *)
(* times subsequences of the input list, in input order.                   *)
(***************************************************************************)
C25_ListsAppendOnly ==
    /\ [](IsSubsequence(successful_urls, urls) /\ IsSubsequence(failed_urls, urls))
    /\ []((pc \in {"loop", "analyze", "report", "done"}) => Processed = i - 1)
    /\ [][ \/ UNCHANGED <<successful_urls, failed_urls>>
           \/ /\ pc = "save"
              /\ pc' = "loop"
              /\ \/ successful_urls' = Append(successful_urls, urls[i])
                       /\ failed_urls' = failed_urls
                 \/ failed_urls' = Append(failed_urls, urls[i])
                       /\ successful_urls' = successful_urls
         ]_vars

C25_Witness ==
    /\ pc = "done"
    /\ Len(urls) = 2
    /\ urls[1] # urls[2]
    /\ failed_urls = urls
    /\ successful_urls = <<>>

(***************************************************************************)
(* C26: a cache-busting retry leaves nothing behind: the configured        *)
(* NO_CACHE never changes, and in every fetch, those after a fetch that    *)
(* forced no-cache included, the generic requests carry the no-cache       *)
(* directive if and only if NO_CACHE is configured true; only the forced   *)
(* request itself always carries it.                                       *)
(***************************************************************************)
C26_ForcedNoCacheDoesNotOutliveItsFetch ==
    /\ [][NO_CACHE' = NO_CACHE]_vars
    /\ [](\A k \in 1..Len(log) :
             /\ IsGenericPost(log[k]) => (log[k].nocache <=> NO_CACHE)
             /\ IsForcedPost(log[k]) => log[k].nocache)

C26_Witness ==
    /\ forced_before
    /\ ~NO_CACHE
    /\ i = 2
    /\ pc = "save"
    /\ ForcedPosts = <<>>
    /\ Len(GenericPosts) = 1
    /\ ~GenericPosts[1].nocache

(***************************************************************************)
(* Vocabulary of the properties of a record: the answer a success record   *)
(* was built from is the last request of its fetch.                        *)
(***************************************************************************)
SuccessReturned == pc = "save" /\ ~content.isNone
AnswerUsed == log[Len(log)].data
AllRecordFiles ==
    { files[n] : n \in DOMAIN files } \cup { dupFiles[d] : d \in DOMAIN dupFiles }

(***************************************************************************)
(* C27 as stated: with the restricted (EU) endpoint selected, a successful *)
(* fetch yields an empty description and an empty language whatever the    *)
(* response contains, and no written file has a language key; with the     *)
(* other endpoint both are those of the response.                          *)
(***************************************************************************)
C27_DescriptionAndLanguageOnlyOutsideEU ==
    /\ SuccessReturned =>
          IF EU_COMPLIANCE
          THEN content.description = "" /\ content.lang = ""
          ELSE content.description = AnswerUsed.description /\ content.lang = AnswerUsed.lang
    /\ EU_COMPLIANCE => \A f \in AllRecordFiles : f.language = ABSENT

(***************************************************************************)
(* C27, amended: the description of a record is that of the response       *)
(* whatever endpoint is selected; only the language depends on the         *)
(* compliance flag: with the restricted (EU) endpoint selected a           *)
(* successful fetch yields an empty language whatever the response         *)
(* contains and no written file has a language key, with the other         *)
(* endpoint the language is that of the response and is written.           *)
(***************************************************************************)
C27_OnlyLanguageDependsOnEU ==
    /\ SuccessReturned =>
          /\ content.description = AnswerUsed.description
          /\ content.lang = (IF EU_COMPLIANCE THEN "" ELSE AnswerUsed.lang)
    /\ \A f \in AllRecordFiles :
          /\ f.language = (IF EU_COMPLIANCE THEN ABSENT
                           ELSE IF f.title = "A" THEN "en" ELSE "fr")
          /\ f.description = (IF f.title = "A" THEN "a-desc" ELSE "b-desc")

C27_Witness ==
    /\ EU_COMPLIANCE
    /\ pc = "loop"
    /\ ~content.isNone
    /\ content.description = "b-desc"
    /\ content.lang = ""
    /\ \E n \in DOMAIN files : files[n].description = "b-desc" /\ files[n].language = ABSENT

(***************************************************************************)
(* C28: while the loop runs, the failure log on disk holds every URL that  *)
(* has failed so far (a failed URL is in it before the next fetch begins), *)
(* and the live summary on disk shows processed = successful + failed =    *)
(* the number of completed steps, one more after each step, never more     *)
(* than the number of URLs to process.                                     *)
(***************************************************************************)
C28_LiveReportsFollowEachStep ==
    /\ []((pc \in {"loop", "post", "cache_retry", "save"}) =>
             /\ summary.kind = "live"
             /\ summary.processed = i - 1
             /\ summary.successful = Len(successful_urls)
             /\ summary.failed = Len(failed_urls)
             /\ summary.processed = summary.successful + summary.failed
             /\ summary.total = Len(urls)
             /\ summary.processed <= summary.total
             /\ failedFile = failed_urls)
    /\ [][ (pc = "save" /\ pc' = "loop") =>
              /\ summary'.processed = summary.processed + 1
              /\ content.isNone => failedFile' = Append(failedFile, urls[i])
              /\ ~content.isNone => failedFile' = failedFile
         ]_vars

C28_Witness ==
    /\ pc = "post"
    /\ i = 2
    /\ Len(urls) = 2
    /\ failedFile = <<urls[1]>>
    /\ summary.processed = 1
    /\ summary.failed = 1
    /\ summary.successful = 0
    /\ summary.total = 2

(***************************************************************************)
(* C29: after a run of the classifier, the relocated count reported for a  *)
(* duplicate group is the number of the group's files that are now in the  *)
(* group's subfolder; a file whose move failed is still at top level and   *)
(* is not counted.                                                         *)
(***************************************************************************)
C29_RelocatedCountIsActualMoves ==
    (pc = "report") =>
        /\ \A t \in DOMAIN duplicate_stats :
              duplicate_stats[t].moved_files =
                 Cardinality({ n \in moves.relocated :
                                 \E d \in DOMAIN dupFiles : d[2] = n /\ dupFiles[d].title = t })
        /\ \A n \in moves.failed : n \in DOMAIN files

(***************************************************************************)
(* C30: a record written by the writer is read back by the frontmatter     *)
(* reader, and with the title the reader API returned, for every title,    *)
(* those with a double quote, a backslash or the text "Title: " included.  *)
(***************************************************************************)
C30_TitleRoundTrip ==
    (pc = "grouped") => (read_back.ok /\ read_back.title = api_title)

(***************************************************************************)
(* Vocabulary of the importer's properties.                                *)
(***************************************************************************)
NamesInDataset == { documents[d] : d \in DOMAIN documents }
ImportingFile == pc \in {"import_loop", "delete", "create"} /\ md_index \in 1..Len(md_files)
HasContent == ReadFile(md_file).body # ""
FileDone == md_index' = md_index + 1
NewRequests == { requests'[k] : k \in (DOMAIN requests') \ (DOMAIN requests) }
CachedId(name) == existing_documents_cache.byName[name]

(* a create request for a name the lookup found follows a delete request   *)
(* of the same file for the document found                                 *)
DeleteBeforeCreate ==
    \A k \in DOMAIN requests :
        (/\ requests[k].op = "create"
         /\ requests[k].name \in DOMAIN existing_documents_cache.byName)
        => \E j \in 1..(k - 1) :
              /\ requests[j].op = "delete"
              /\ requests[j].file = requests[k].file
              /\ requests[j].id = CachedId(requests[k].name)

(***************************************************************************)
(* C31: with skip-existing enabled, a file (one with content, so that it   *)
(* has a document name) whose document name already exists in the dataset  *)
(* causes no delete and no create request, and the file is counted as      *)
(* successfully imported; with skip-existing disabled,                     *)
(* the delete request of the existing document comes before the create     *)
(* request of its replacement.                                             *)
(***************************************************************************)
C31_SkipExistingSendsNothing ==
    /\ [][(SKIP_EXISTING /\ ImportingFile /\ HasContent /\ doc_name \in NamesInDataset)
          => /\ \A r \in NewRequests : r.op = "list"
             /\ FileDone => successful_imports' = Append(successful_imports, md_file)]_vars
    /\ [](~SKIP_EXISTING => DeleteBeforeCreate)

(***************************************************************************)
(* C32: the importer never creates a second document under a name that     *)
(* already has one in the dataset, and never sends a delete request for a  *)
(* document id that it has already deleted, whatever the files are (two    *)
(* files of one document name included) and also when a delete request     *)
(* fails; so a dataset with one document per name stays one.               *)
(***************************************************************************)
C32_OneDocumentPerName ==
    /\ [][\A r \in NewRequests : (r.op = "create" /\ r.ok) => r.name \notin NamesInDataset]_vars
    /\ [](\A j, k \in DOMAIN requests :
             (j < k /\ requests[j].op = "delete" /\ requests[j].ok /\ requests[k].op = "delete")
             => requests[k].id # requests[j].id)

CountedImports == successful_imports \o failed_imports
TimesCounted(p) == Cardinality({ k \in DOMAIN CountedImports : CountedImports[k] = p })
IsRelocated(p) == p \in DOMAIN dupFiles \/ p[2] \in moves.relocated
IsTopLevel(p) == p[1] = "." /\ p[2] \in DOMAIN files

(***************************************************************************)
(* C33: after the classifier, the importer reads only top-level record     *)
(* files: no file the classifier relocated is read or counted, no file is  *)
(* counted twice, and when the import run has ended every top-level record *)
(* file has been counted exactly once, as a successful or as a failed      *)
(* import.                                                                 *)
(***************************************************************************)
C33_OnlyTopLevelFilesEachCountedOnce ==
    /\ \A k \in DOMAIN md_files : IsTopLevel(md_files[k]) /\ ~IsRelocated(md_files[k])
    /\ \A k \in DOMAIN CountedImports :
          /\ IsTopLevel(CountedImports[k]) /\ ~IsRelocated(CountedImports[k])
          /\ TimesCounted(CountedImports[k]) = 1
    /\ (pc = "import_done") => \A n \in DOMAIN files : TimesCounted(<<".", n>>) = 1

(* a group of two was relocated, and the third file was imported *)
C33_Witness ==
    /\ pc = "import_done"
    /\ Cardinality(moves.relocated) = 2
    /\ Cardinality(DOMAIN dupFiles) = 2
    /\ moves.failed = {}
    /\ Len(successful_imports) = 1
    /\ failed_imports = <<>>

IsList(r) == r.op = "list"
ListRequests == SelectSeq(requests, IsList)
CachedNames == DOMAIN existing_documents_cache.byName
(* the cache holds the documents of the pages that arrived: for each name  *)
(* the id listed last, and no other name                                   *)
CacheIsListing(got) ==
    /\ CachedNames = { got[k].name : k \in DOMAIN got }
    /\ \A k \in DOMAIN got :
          (\A j \in DOMAIN got : j > k => got[j].name # got[k].name)
          => CachedId(got[k].name) = got[k].id
LoadedOnceBeforeAnyImport ==
    /\ cache_loads <= 1
    /\ Len(ListRequests) = cache_loads
    /\ existing_documents_cache.loaded <=> cache_loads = 1
    /\ \A k \in DOMAIN requests : IsList(requests[k]) => k = 1
CacheFrozen == existing_documents_cache.loaded => existing_documents_cache' = existing_documents_cache

(***************************************************************************)
(* C34 as stated: the existing-documents cache of an importer is loaded at *)
(* most once, before any create or delete request;                         *)
(* a load that fails leaves it loaded and empty; no later step changes it, *)
(* so every lookup answers from that one listing.                          *)
(***************************************************************************)
C34_CacheLoadedOnceEmptyOnFailure ==
    /\ [](LoadedOnceBeforeAnyImport
          /\ \A k \in DOMAIN requests :
                IsList(requests[k]) =>
                   /\ CacheIsListing(requests[k].got)
                   /\ ~requests[k].ok => CachedNames = {})
    /\ [][CacheFrozen]_vars

(***************************************************************************)
(* C34, amended: the existing-documents cache of an importer is loaded at  *)
(* most once, before any create or delete request; a load that            *)
(* fails leaves it loaded, with the documents of the pages that arrived    *)
(* before the failing one (none when a request raised); no later step      *)
(* changes it, so every lookup answers from that one listing.              *)
(***************************************************************************)
C34_CacheLoadedOnceAndFrozen ==
    /\ [](LoadedOnceBeforeAnyImport
          /\ \A k \in DOMAIN requests :
                IsList(requests[k]) =>
                   /\ CacheIsListing(requests[k].got)
                   /\ (~requests[k].ok /\ requests[k].got = <<>>) => CachedNames = {})
    /\ [][CacheFrozen]_vars

(* the list failed after a page had arrived; a document was created and a  *)
(* second file looked up afterwards, with the cache as it was loaded       *)
C34_Witness ==
    /\ pc = "import_done"
    /\ Len(md_files) >= 2
    /\ cache_loads = 1
    /\ requests # <<>> /\ IsList(requests[1])
    /\ ~requests[1].ok /\ requests[1].got # <<>>
    /\ \E k \in DOMAIN requests : requests[k].op = "create" /\ requests[k].ok /\ requests[k].file = 1
    /\ CachedNames # {}

====
